---------------------------- MODULE Spec2Model ----------------------------
(***************************************************************************)
(* A model of the outfit suggestion engine of fAIshion                     *)
(* (src/ml/outfit_suggester.py, class OutfitSuggester).                    *)
(*                                                                         *)
(* Numbers.  The engine computes with Python floats.  The model computes   *)
(* the same expressions exactly, over rationals <<n, d>> (d > 0, lowest    *)
(* terms).  Formality values are kept in tenths (every weight of           *)
(* _calculate_formality is a multiple of 0.1), so 1.0 .. 10.0 is 10 .. 100.*)
(* Text is TLA+ strings; `k in s` of the source is Contains(s, k).         *)
(***************************************************************************)
EXTENDS Integers, Sequences, FiniteSets, TLC

VARIABLES
    fmPrev,     \* the formality-match call before the last one: [item, occ, score]
    fmLast,     \* the last _calculate_formality_match call: [item, occ, score]
    wxCall,     \* the last _categorize_weather call: [desc, temp, scores]
    fxCall,     \* the last _extract_features_from_description call and its result
    ocCall,     \* the last _calculate_occasion_score call and its result
    suggester,  \* each OutfitSuggester instance's tables that suggest_outfit reads
    extracted,  \* _extract_features_from_description of each known description
    request,    \* the arguments of the last suggest_outfit call, and its instance
    clothing_df,              \* its scored and sorted rows
    weather_profile,          \* its weather profile (the local weather_categories)
    outfit,                   \* the dict it returned: <<key, value>> in insertion order
    selected_items_features,  \* <<key, row index>> of the rows it selected
    formatted,  \* format_outfit_suggestion(outfit), once it was called
    parsed,     \* parse_outfit_suggestion of that text, once it was called
    memo,       \* an earlier call's arguments and text, kept for comparison
    calls,      \* each thread's suggestion request on the shared instance: its
                \* position and its local variables
    users,      \* the committed rows of the Users table
    registrations,  \* each register_user call: its position, arguments and outcome
    connections,  \* each database call: its function, position, and what was
                  \* done to the connection it opened
    upload,     \* the /upload-clothing/image request: its position and result
    handler,    \* the /suggest-outfit request: its position, the services it
                \* invoked and its result
    wardrobe    \* a stored list of descriptions, and what the engine is passed

pureVars == <<fmPrev, fmLast, wxCall, fxCall, ocCall>>
engineVars == <<suggester, extracted, request, clothing_df, weather_profile, outfit,
                selected_items_features, formatted, parsed, memo>>
serviceVars == <<calls, users, registrations>>
appVars == <<connections, upload, handler, wardrobe>>
vars == <<fmPrev, fmLast, wxCall, fxCall, ocCall, suggester, extracted, request, clothing_df, weather_profile,
          outfit, selected_items_features, formatted, parsed, memo, calls, users, registrations,
          connections, upload, handler, wardrobe>>

NoCall == [called |-> FALSE]

\* No thread has a request under way; no register_user call was made and the
\* Users table is empty.
NoThreads == calls = <<>>
NoRegistrations == users = {} /\ registrations = <<>>

\* No database call, upload or suggestion request was made.
AppIdle ==
    /\ connections = <<>>
    /\ upload = NoCall
    /\ handler = NoCall
    /\ wardrobe = NoCall

\* The engine before any call: no instance exists yet, nothing was returned.
EngineIdle ==
    /\ suggester = <<>>
    /\ extracted = <<>>
    /\ request = NoCall
    /\ clothing_df = <<>>
    /\ weather_profile = <<>>
    /\ outfit = <<>>
    /\ selected_items_features = <<>>
    /\ formatted = NoCall
    /\ parsed = NoCall
    /\ memo = NoCall

---------------------------------------------------------------------------
(* Text                                                                    *)

\* Python's `k in s` for strings.
Contains(s, k) ==
    \E i \in 1..(Len(s) - Len(k) + 1) : SubSeq(s, i, i + Len(k) - 1) = k

\* any(term in s for term in terms), terms a sequence of strings.
ContainsAny(s, terms) ==
    \E j \in 1..Len(terms) : Contains(s, terms[j])

Uppers == "ABCDEFGHIJKLMNOPQRSTUVWXYZ"
Lowers == "abcdefghijklmnopqrstuvwxyz"

LowerChar(c) ==
    IF \E i \in 1..Len(Uppers) : SubSeq(Uppers, i, i) = c
    THEN LET i == CHOOSE k \in 1..Len(Uppers) : SubSeq(Uppers, k, k) = c
         IN  SubSeq(Lowers, i, i)
    ELSE c

\* str.lower()
RECURSIVE Lower(_)
Lower(s) ==
    IF Len(s) = 0 THEN s
    ELSE LowerChar(SubSeq(s, 1, 1)) \o Lower(SubSeq(s, 2, Len(s)))

---------------------------------------------------------------------------
(* Exact arithmetic on rationals <<n, d>>, d > 0, in lowest terms          *)

Abs(n) == IF n < 0 THEN -n ELSE n

RECURSIVE GCD(_, _)
GCD(a, b) == IF b = 0 THEN a ELSE GCD(b, a % b)

Rat(n, d) ==
    LET g == GCD(Abs(n), d) IN <<n \div g, d \div g>>

RZero == <<0, 1>>
ROne == <<1, 1>>

RAdd(x, y) ==
    LET g == GCD(x[2], y[2])
        l == (x[2] \div g) * y[2]
    IN  Rat(x[1] * (l \div x[2]) + y[1] * (l \div y[2]), l)

RNeg(x) == <<-x[1], x[2]>>

RSub(x, y) == RAdd(x, RNeg(y))

RMul(x, y) ==
    LET g1 == GCD(Abs(x[1]), y[2])
        g2 == GCD(Abs(y[1]), x[2])
    IN  IF x[1] = 0 \/ y[1] = 0 THEN RZero
        ELSE <<(x[1] \div g1) * (y[1] \div g2), (x[2] \div g2) * (y[2] \div g1)>>

RDiv(x, y) == RMul(x, IF y[1] < 0 THEN <<-y[2], -y[1]>> ELSE <<y[2], y[1]>>)

\* x < y, without forming cross products (they overflow TLC's integers).
RECURSIVE RLess(_, _)
RLess(x, y) ==
    LET qx == x[1] \div x[2]
        qy == y[1] \div y[2]
        rx == x[1] % x[2]
        ry == y[1] % y[2]
    IN  IF qx # qy THEN qx < qy
        ELSE /\ ry # 0
             /\ (rx = 0 \/ RLess(<<y[2], ry>>, <<x[2], rx>>))

RLeq(x, y) == ~RLess(y, x)

RMax(x, y) == IF RLess(x, y) THEN y ELSE x
RMin(x, y) == IF RLess(y, x) THEN y ELSE x

\* A formality in tenths as the number the source computes with.
Tenths(n) == Rat(n, 10)

---------------------------------------------------------------------------
(* _calculate_formality_match                                              *)

\* The formality scale of the source (1-10), in tenths.
MinFormality == 10
MaxFormality == 100

\* DirectionPenalty with the two directions exchanged.
DirectionPenaltyExchanged(item_formality, occasion_formality, diff) ==
    IF item_formality > occasion_formality
    THEN RMul(Rat(15, 10), diff)
    ELSE IF RLess(diff, <<2, 1>>)
         THEN RMul(RMul(Rat(8, 10), diff), Rat(8, 10))
         ELSE RMul(Rat(8, 10), diff)

\* The penalty by direction: 1.5 * diff when underdressed, 0.8 * diff when
\* not, times 0.8 more when that diff is below 2.
DirectionPenalty(item_formality, occasion_formality, diff) ==
    IF item_formality < occasion_formality
    THEN RMul(Rat(15, 10), diff)
    ELSE IF RLess(diff, <<2, 1>>)
         THEN RMul(RMul(Rat(8, 10), diff), Rat(8, 10))
         ELSE RMul(Rat(8, 10), diff)

\* ExtremeMismatch easing the penalty beyond diff 5 instead of raising it.
ExtremeMismatchEased(penalty, diff) ==
    IF RLess(<<5, 1>>, diff) THEN RMul(penalty, Rat(5, 10)) ELSE penalty

\* if diff > 5: penalty *= 1.5
ExtremeMismatch(penalty, diff) ==
    IF RLess(<<5, 1>>, diff) THEN RMul(penalty, Rat(15, 10)) ELSE penalty

CalculateFormalityMatch(item_formality, occasion_formality) ==
    LET diff == Tenths(Abs(item_formality - occasion_formality))
        penalty == ExtremeMismatch(DirectionPenalty(item_formality, occasion_formality, diff),
                                   diff)
        score == RMax(RZero, RSub(ROne, RDiv(penalty, <<10, 1>>)))
    IN  IF RLess(diff, Rat(5, 10))
        THEN RMin(ROne, RAdd(score, Rat(2, 10)))
        ELSE score

\* The occasion formalities the table of __init__ can produce, and the default 5.0.
OccasionFormalities == {10, 20, 40, 50, 60, 70, 80, 90, 100}

FormalityCall(i, o) == [called |-> TRUE, item |-> i, occ |-> o,
                        score |-> CalculateFormalityMatch(i, o)]

FmInit ==
    /\ fmPrev = NoCall
    /\ fmLast = NoCall
    /\ wxCall = NoCall
    /\ fxCall = NoCall
    /\ ocCall = NoCall
    /\ EngineIdle
    /\ NoThreads
    /\ NoRegistrations
    /\ AppIdle

\* Two calls are kept side by side: the claims about the function compare two
\* of its results.
FormalityMatch ==
    /\ ~fmPrev.called
    /\ \E i \in MinFormality..MaxFormality, o \in OccasionFormalities :
          fmLast' = FormalityCall(i, o)
    /\ fmPrev' = fmLast
    /\ UNCHANGED <<wxCall, fxCall, ocCall>>
    /\ UNCHANGED engineVars
    /\ UNCHANGED serviceVars
    /\ UNCHANGED appVars

FmNext == FormalityMatch

SpecFormality == FmInit /\ [][FmNext]_vars

FormalityDiff(call) == Abs(call.item - call.occ)

Underdressed(call) == call.item < call.occ

\* C8: for the same occasion formality and the same diff > 0, the underdressed
\* item never scores higher than the overdressed one, and item 3 against
\* occasion 6 scores strictly lower than item 9 against occasion 6.
FormalityAsymmetry ==
    (/\ fmPrev.called
     /\ fmLast.called
     /\ fmPrev.occ = fmLast.occ
     /\ Underdressed(fmPrev)
     /\ fmLast.item - fmLast.occ = fmPrev.occ - fmPrev.item)
    => /\ RLeq(fmPrev.score, fmLast.score)
       /\ (fmPrev.item = 30 /\ fmPrev.occ = 60) => RLess(fmPrev.score, fmLast.score)

FormalityAsymmetryWitness ==
    /\ fmPrev.called
    /\ fmPrev.item = 30 /\ fmPrev.occ = 60
    /\ fmLast.item = 90 /\ fmLast.occ = 60
    /\ RLess(fmPrev.score, fmLast.score)

\* C9 as stated: of any two calls, the one with the larger diff never has the
\* higher score, whatever their directions.
FormalityMonotoneInDiff ==
    (/\ fmPrev.called
     /\ fmLast.called
     /\ FormalityDiff(fmPrev) < FormalityDiff(fmLast))
    => RLeq(fmLast.score, fmPrev.score)

\* C9: of two calls in the same direction (both underdressed, or both not),
\* the one with the larger diff never has the higher score.
FormalityMonotoneWithinDirection ==
    (/\ fmPrev.called
     /\ fmLast.called
     /\ Underdressed(fmPrev) <=> Underdressed(fmLast)
     /\ FormalityDiff(fmPrev) < FormalityDiff(fmLast))
    => RLeq(fmLast.score, fmPrev.score)

\* Two overdressed calls on either side of the step at diff 2.
FormalityMonotoneWitness ==
    /\ fmPrev.called
    /\ ~Underdressed(fmPrev) /\ ~Underdressed(fmLast)
    /\ FormalityDiff(fmPrev) = 19
    /\ FormalityDiff(fmLast) = 20
    /\ RLess(fmLast.score, fmPrev.score)


---------------------------------------------------------------------------
(* _categorize_weather                                                     *)

\* The keys of self.weather_categories, in the dict's order.
WeatherCats == <<"hot", "cold", "wet", "windy", "mild">>

\* self.weather_categories as __init__ builds it.
InitialWeatherCategories ==
    [hot   |-> <<"sunny", "hot", "warm", "clear", "heat", "heatwave", "scorching", "tropical">>,
     cold  |-> <<"cold", "freezing", "chilly", "snow", "icy", "frost", "frigid", "wintry">>,
     wet   |-> <<"rain", "rainy", "shower", "drizzle", "thunderstorm", "downpour", "humid", "moisture">>,
     windy |-> <<"windy", "breezy", "gusty", "gale", "draft", "stormy", "cyclone">>,
     mild  |-> <<"mild", "pleasant", "partly cloudy", "cloudy", "moderate", "temperate", "fair">>]

precipitation_terms ==
    <<"rain", "snow", "drizzle", "shower", "precipitation", "wet", "damp", "thunderstorm">>

wind_terms == <<"wind", "breezy", "gusty", "blustery", "gale", "drafty">>

\* The description loop: each keyword found adds 0.8 if it is one of the
\* category's first three keywords, 0.5 otherwise.
RECURSIVE KeywordScore(_, _, _)
KeywordScore(keywords, desc, j) ==
    IF j > Len(keywords) THEN RZero
    ELSE RAdd(IF Contains(desc, keywords[j])
              THEN (IF j <= 3 THEN Rat(8, 10) ELSE Rat(5, 10))
              ELSE RZero,
              KeywordScore(keywords, desc, j + 1))

\* The temperature bands with every bound taken as inclusive.
TemperatureBandInclusive(scores, temperature) ==
    LET add(s, c, n) == [s EXCEPT ![c] = RAdd(@, Rat(n, 10))]
        zero(s, c) == [s EXCEPT ![c] = RZero]
    IN  IF temperature >= 30 THEN zero(add(scores, "hot", 10), "cold")
        ELSE IF temperature >= 25 THEN zero(add(add(scores, "hot", 8), "mild", 2), "cold")
        ELSE IF temperature >= 20 THEN zero(add(add(scores, "hot", 5), "mild", 5), "cold")
        ELSE IF temperature >= 15 THEN add(add(add(scores, "mild", 8), "hot", 2), "cold", 1)
        ELSE IF temperature >= 10 THEN add(add(scores, "mild", 6), "cold", 4)
        ELSE IF temperature >= 5 THEN zero(add(add(scores, "cold", 7), "mild", 3), "hot")
        ELSE IF temperature >= 0 THEN zero(add(add(scores, "cold", 9), "mild", 1), "hot")
        ELSE zero(zero(add(scores, "cold", 10), "mild"), "hot")

\* The temperature bands: what each adds to a score, and which scores it resets.
TemperatureBand(scores, temperature) ==
    LET add(s, c, n) == [s EXCEPT ![c] = RAdd(@, Rat(n, 10))]
        zero(s, c) == [s EXCEPT ![c] = RZero]
    IN  IF temperature > 30 THEN zero(add(scores, "hot", 10), "cold")
        ELSE IF temperature > 25 THEN zero(add(add(scores, "hot", 8), "mild", 2), "cold")
        ELSE IF temperature > 20 THEN zero(add(add(scores, "hot", 5), "mild", 5), "cold")
        ELSE IF temperature > 15 THEN add(add(add(scores, "mild", 8), "hot", 2), "cold", 1)
        ELSE IF temperature > 10 THEN add(add(scores, "mild", 6), "cold", 4)
        ELSE IF temperature > 5 THEN zero(add(add(scores, "cold", 7), "mild", 3), "hot")
        ELSE IF temperature > 0 THEN zero(add(add(scores, "cold", 9), "mild", 1), "hot")
        ELSE zero(zero(add(scores, "cold", 10), "mild"), "hot")

Precipitation(scores, desc) ==
    IF ContainsAny(desc, precipitation_terms)
    THEN [scores EXCEPT !["wet"] = RAdd(@, Rat(8, 10)),
                        !["cold"] = IF Contains(desc, "snow")
                                    THEN RAdd(@, Rat(5, 10)) ELSE @]
    ELSE scores

Wind(scores, desc, temperature) ==
    IF ContainsAny(desc, wind_terms)
    THEN [scores EXCEPT !["windy"] = RAdd(@, Rat(8, 10)),
                        !["cold"] = IF temperature < 15
                                    THEN RAdd(@, Rat(3, 10)) ELSE @]
    ELSE scores

RECURSIVE SumScores(_, _)
SumScores(scores, j) ==
    IF j > Len(WeatherCats) THEN RZero
    ELSE RAdd(scores[WeatherCats[j]], SumScores(scores, j + 1))

\* for category in weather_scores: weather_scores[category] = max(0, ...)
Clamp(scores) ==
    [hot   |-> RMax(RZero, scores.hot),
     cold  |-> RMax(RZero, scores.cold),
     wet   |-> RMax(RZero, scores.wet),
     windy |-> RMax(RZero, scores.windy),
     mild  |-> RMax(RZero, scores.mild)]

\* Normalize without the division.
NormalizeSkipped(scores) == scores

\* The last step: divide by the total, or default to mild when it is 0.
Normalize(scores) ==
    LET total_score == SumScores(scores, 1)
    IN  IF RLess(RZero, total_score)
        THEN [hot   |-> RDiv(scores.hot, total_score),
              cold  |-> RDiv(scores.cold, total_score),
              wet   |-> RDiv(scores.wet, total_score),
              windy |-> RDiv(scores.windy, total_score),
              mild  |-> RDiv(scores.mild, total_score)]
        ELSE [scores EXCEPT !["mild"] = ROne]

CategorizeWeather(weather_categories, weather_description, temperature) ==
    LET weather_desc_lower == Lower(weather_description)
        byKeyword ==
            [hot   |-> KeywordScore(weather_categories.hot, weather_desc_lower, 1),
             cold  |-> KeywordScore(weather_categories.cold, weather_desc_lower, 1),
             wet   |-> KeywordScore(weather_categories.wet, weather_desc_lower, 1),
             windy |-> KeywordScore(weather_categories.windy, weather_desc_lower, 1),
             mild  |-> KeywordScore(weather_categories.mild, weather_desc_lower, 1)]
    IN  Normalize(Clamp(Wind(Precipitation(TemperatureBand(byKeyword, temperature),
                                           weather_desc_lower),
                             weather_desc_lower, temperature)))

\* weather_scores as they stand at line 909, before the normalisation.
ClampedWeatherScores(weather_categories, weather_description, temperature) ==
    LET weather_desc_lower == Lower(weather_description)
        byKeyword ==
            [hot   |-> KeywordScore(weather_categories.hot, weather_desc_lower, 1),
             cold  |-> KeywordScore(weather_categories.cold, weather_desc_lower, 1),
             wet   |-> KeywordScore(weather_categories.wet, weather_desc_lower, 1),
             windy |-> KeywordScore(weather_categories.windy, weather_desc_lower, 1),
             mild  |-> KeywordScore(weather_categories.mild, weather_desc_lower, 1)]
    IN  Clamp(Wind(Precipitation(TemperatureBand(byKeyword, temperature),
                                 weather_desc_lower),
                   weather_desc_lower, temperature))

\* Weather descriptions as the weather service words them, and the empty one.
WeatherDescriptions ==
    {"", "clear sky", "light rain", "Snow", "overcast clouds", "windy and cold",
     "hot and humid", "thunderstorm with gusty wind"}

\* Degrees Celsius on both sides of every band of the source.
Temperatures == {-5, 0, 3, 5, 8, 10, 12, 15, 18, 20, 22, 25, 28, 30, 35}

WxInit ==
    /\ wxCall = NoCall
    /\ fxCall = NoCall
    /\ ocCall = NoCall
    /\ fmPrev = NoCall
    /\ fmLast = NoCall
    /\ EngineIdle
    /\ NoThreads
    /\ NoRegistrations
    /\ AppIdle

CategorizeWeatherCall ==
    /\ \E w \in WeatherDescriptions, t \in Temperatures :
          wxCall' = [called |-> TRUE, desc |-> w, temp |-> t,
                     clamped |-> ClampedWeatherScores(InitialWeatherCategories, w, t),
                     scores |-> CategorizeWeather(InitialWeatherCategories, w, t)]
    /\ UNCHANGED <<fmPrev, fmLast, fxCall, ocCall>>
    /\ UNCHANGED engineVars
    /\ UNCHANGED serviceVars
    /\ UNCHANGED appVars

WxNext == CategorizeWeatherCall

SpecWeather == WxInit /\ [][WxNext]_vars

\* C10: the five weights _categorize_weather returns are each at least 0 and
\* sum to 1.
WeatherWeightsSumToOne ==
    wxCall.called =>
        /\ \A j \in 1..Len(WeatherCats) : RLeq(RZero, wxCall.scores[WeatherCats[j]])
        /\ SumScores(wxCall.scores, 1) = ROne

\* A call where keywords, the temperature band, rain and wind all contribute.
WeatherWeightsWitness ==
    /\ wxCall.called
    /\ wxCall.desc = "thunderstorm with gusty wind"
    /\ wxCall.temp = 12
    /\ RLess(RZero, wxCall.scores.wet)
    /\ RLess(RZero, wxCall.scores.windy)
    /\ RLess(RZero, wxCall.scores.cold)
    /\ RLess(wxCall.scores.mild, ROne)

\* The profile of line 918: mild alone.
MildOnly == [hot |-> RZero, cold |-> RZero, wet |-> RZero, windy |-> RZero, mild |-> ROne]

AllZero == [hot |-> RZero, cold |-> RZero, wet |-> RZero, windy |-> RZero, mild |-> RZero]

\* C11 as stated: an empty description has _categorize_weather return
\* mild = 1.0 and 0 elsewhere, at 15 degrees in particular.
EmptyDescriptionDefaultsToMild ==
    (wxCall.called /\ wxCall.desc = "") => wxCall.scores = MildOnly

\* C11 amended: the default mild = 1.0 is what the normalisation makes of
\* scores that are all 0, and no call has such scores, since every temperature
\* band adds to hot, cold or mild; so each weight is its clamped score divided
\* by a total above 0, and ("", 15) returns mild 0.6, cold 0.4 and 0 elsewhere.
DefaultOnlyWhenAllZero ==
    /\ Normalize(AllZero) = MildOnly
    /\ wxCall.called =>
          /\ RLess(RZero, SumScores(wxCall.clamped, 1))
          /\ \A j \in 1..Len(WeatherCats) :
                wxCall.scores[WeatherCats[j]] =
                    RDiv(wxCall.clamped[WeatherCats[j]], SumScores(wxCall.clamped, 1))
          /\ (wxCall.desc = "" /\ wxCall.temp = 15) =>
                wxCall.scores = [AllZero EXCEPT !.mild = Rat(6, 10), !.cold = Rat(4, 10)]

\* The call of the example: no description, 15 degrees, and cold in the result.
DefaultOnlyWitness ==
    /\ wxCall.called
    /\ wxCall.desc = ""
    /\ wxCall.temp = 15
    /\ wxCall.scores.mild = Rat(6, 10)
    /\ wxCall.scores.cold = Rat(4, 10)

\* C24: the hot weight _categorize_weather returns is 0 at 5 degrees and
\* below, and the cold weight is 0 above 20 degrees, whatever the description.
HotColdSuppression ==
    wxCall.called =>
        /\ wxCall.temp <= 5 => wxCall.scores.hot = RZero
        /\ wxCall.temp > 20 => wxCall.scores.cold = RZero


---------------------------------------------------------------------------
(* Feature extraction: _extract_features_from_description and its helpers  *)

WordChars == "abcdefghijklmnopqrstuvwxyz0123456789_"

IsWordChar(c) == Contains(WordChars, c)

\* TfidfVectorizer.transform marks a vocabulary term when it equals a token of
\* the lower-cased text; tokens are the maximal runs of two or more word
\* characters (token_pattern \b\w\w+\b, unigrams).  A vocabulary term with a
\* space or a hyphen ("crop top", "t-shirt") is never a token.
HasToken(s, t) ==
    /\ Len(t) >= 2
    /\ \A i \in 1..Len(t) : IsWordChar(SubSeq(t, i, i))
    /\ \E i \in 1..(Len(s) - Len(t) + 1) :
          /\ SubSeq(s, i, i + Len(t) - 1) = t
          /\ (i = 1 \/ ~IsWordChar(SubSeq(s, i - 1, i - 1)))
          /\ (i + Len(t) - 1 = Len(s) \/ ~IsWordChar(SubSeq(s, i + Len(t), i + Len(t))))

\* [vocabulary[i] for i in np.where(features > 0)[0]]
VocabularyNames(vocabulary, description) ==
    LET s == Lower(description)
    IN  SelectSeq(vocabulary, LAMBDA t : HasToken(s, t))

\* x in xs, xs a sequence.
InSeq(x, xs) == \E j \in 1..Len(xs) : xs[j] = x

color_list ==
    <<"red", "blue", "green", "yellow", "black", "white", "grey", "gray",
      "purple", "pink", "orange", "brown", "navy", "beige", "cream", "tan",
      "olive", "burgundy", "charcoal", "silver", "gold", "teal", "khaki",
      "maroon", "mustard", "coral", "mint", "turquoise", "indigo", "magenta",
      "lavender", "peach", "rust", "emerald", "ochre", "crimson", "azure",
      "lilac", "amber", "salmon", "slate", "mauve", "taupe", "cerulean",
      "ivory", "camel", "sage", "periwinkle", "plum", "cobalt", "fuchsia">>

material_list ==
    <<"cotton", "wool", "leather", "denim", "silk", "linen", "polyester",
      "nylon", "cashmere", "velvet", "suede", "corduroy", "fleece", "tweed",
      "jersey", "canvas", "chino", "flannel", "chenille", "satin", "viscose",
      "spandex", "rayon", "acrylic", "lyocell", "mohair", "merino", "angora",
      "modal", "twill", "chambray", "terry", "mesh", "sequin", "bamboo",
      "microfiber", "gabardine", "herringbone", "poplin", "organza", "taffeta",
      "fur", "faux fur", "sherpa", "crepe", "lamé", "oxford", "gore-tex">>

clothing_types ==
    <<"t-shirt", "shirt", "blouse", "sweater", "sweatshirt", "hoodie",
      "polo", "tank", "turtleneck", "tunic", "button-down",
      "henley", "crop top", "camisole", "pullover", "jersey", "long sleeve",
      "short sleeve", "v-neck", "crew neck", "sleeveless", "top",
      "jeans", "pants", "trousers", "shorts", "skirt", "chinos", "leggings",
      "joggers", "sweatpants", "culottes", "capris", "jeggings", "cargo",
      "khakis", "slacks", "dress pants", "bermudas", "palazzo", "linen pants",
      "dress", "jumpsuit", "romper", "playsuit", "gown", "sundress", "maxi",
      "midi", "mini", "shift", "sheath", "a-line", "wrap", "slip dress",
      "jacket", "coat", "blazer", "parka", "windbreaker", "vest", "cardigan",
      "trench", "bomber", "denim jacket", "leather jacket", "puffer", "raincoat",
      "poncho", "peacoat", "overcoat", "anorak", "cape", "shrug",
      "shoes", "boots", "sneakers", "sandals", "loafers", "flats", "heels",
      "pumps", "wedges", "oxford shoes", "slippers", "mules", "espadrilles",
      "mocassins", "brogues", "ankle boots", "hiking boots", "slip-ons",
      "watch", "scarf", "tie", "belt", "hat", "gloves", "socks", "necklace",
      "earrings", "bracelet", "ring", "sunglasses", "bag", "purse", "handbag",
      "wallet", "backpack", "tote", "clutch", "headband", "beanie", "cap",
      "beret", "bowtie", "pocket square", "cufflinks", "anklet", "brooch">>

\* The categories, in the order of the dict category_mappings.
Categories == <<"top", "bottom", "one_piece", "outerwear", "footwear", "accessory">>

category_mappings ==
    [top |-> <<"t-shirt", "shirt", "blouse", "sweater", "sweatshirt", "hoodie", "polo",
               "tank", "turtleneck", "cardigan", "tunic", "button-down", "henley",
               "crop top", "camisole", "pullover", "jersey", "top">>,
     bottom |-> <<"jeans", "pants", "trousers", "shorts", "skirt", "chinos", "leggings",
                  "joggers", "sweatpants", "culottes", "capris", "jeggings", "cargo",
                  "khakis", "slacks", "dress pants", "bermudas", "palazzo", "linen pants">>,
     one_piece |-> <<"dress", "jumpsuit", "romper", "playsuit", "gown", "sundress", "maxi",
                     "midi", "mini", "shift", "sheath", "a-line", "wrap", "slip dress">>,
     outerwear |-> <<"jacket", "coat", "blazer", "parka", "windbreaker", "vest",
                     "trench", "bomber", "denim jacket", "leather jacket", "puffer",
                     "raincoat", "poncho", "peacoat", "overcoat", "anorak", "cape", "shrug">>,
     footwear |-> <<"shoes", "boots", "sneakers", "sandals", "loafers", "flats", "heels",
                    "pumps", "wedges", "oxford shoes", "slippers", "mules", "espadrilles",
                    "mocassins", "brogues", "ankle boots", "hiking boots", "slip-ons">>,
     accessory |-> <<"watch", "scarf", "tie", "belt", "hat", "gloves", "socks", "necklace",
                     "earrings", "bracelet", "ring", "sunglasses", "bag", "purse", "handbag",
                     "wallet", "backpack", "tote", "clutch", "headband", "beanie", "cap",
                     "beret", "bowtie", "pocket square", "cufflinks", "anklet", "brooch">>]

\* The first category, in dict order, for which match(terms) holds; "" if none.
RECURSIVE FirstCategory(_, _)
FirstCategory(match(_), j) ==
    IF j > Len(Categories) THEN ""
    ELSE IF match(category_mappings[Categories[j]]) THEN Categories[j]
    ELSE FirstCategory(match, j + 1)

\* The position of a category in the dict category_mappings.
MappingIndex(c) == CHOOSE j \in 1..Len(Categories) : Categories[j] = c

\* _determine_category with the type-name loop keeping the last category that
\* matches instead of returning at the first.
DetermineCategoryLastMatch(description, type_names) ==
    LET desc_lower == Lower(description)
        typed == {c \in DOMAIN category_mappings :
                     \E j \in 1..Len(type_names) : InSeq(type_names[j], category_mappings[c])}
        byText == FirstCategory(LAMBDA terms : ContainsAny(desc_lower, terms), 1)
    IN  IF typed # {}
        THEN IF InSeq("cardigan", type_names)
             THEN IF ContainsAny(desc_lower, <<"layer", "jacket", "coat", "outerwear">>)
                  THEN "outerwear" ELSE "top"
             ELSE CHOOSE c \in typed : \A d \in typed : MappingIndex(d) <= MappingIndex(c)
        ELSE IF byText # "" THEN byText
        ELSE "accessory"

\* _determine_category with 'top' as the last resort.
DetermineCategoryDefaultTop(description, type_names) ==
    LET desc_lower == Lower(description)
        byType == FirstCategory(LAMBDA terms : \E j \in 1..Len(terms) : InSeq(terms[j], type_names), 1)
        byText == FirstCategory(LAMBDA terms : ContainsAny(desc_lower, terms), 1)
    IN  IF byType # "" THEN byType
        ELSE IF byText # "" THEN byText
        ELSE "top"

DetermineCategory(description, type_names) ==
    LET desc_lower == Lower(description)
        byType == FirstCategory(LAMBDA terms : \E j \in 1..Len(terms) : InSeq(terms[j], type_names), 1)
        byText == FirstCategory(LAMBDA terms : ContainsAny(desc_lower, terms), 1)
        \* any(term in word for word in desc_lower.split()): the term lies
        \* inside one whitespace-free word of the description.
        byWord == FirstCategory(LAMBDA terms : \E j \in 1..Len(terms) :
                                    Contains(desc_lower, terms[j]) /\ ~Contains(terms[j], " "), 1)
    IN  IF byType # ""
        THEN IF InSeq("cardigan", type_names)
             THEN IF ContainsAny(desc_lower, <<"layer", "jacket", "coat", "outerwear">>)
                  THEN "outerwear" ELSE "top"
             ELSE byType
        ELSE IF byText # "" THEN byText
        ELSE IF byWord # "" THEN byWord
        ELSE "accessory"

\* The number of terms of a sequence that satisfy a test: one loop iteration
\* of the source each.
RECURSIVE CountTerms(_, _, _)
CountTerms(terms, test(_), j) ==
    IF j > Len(terms) THEN 0
    ELSE (IF test(terms[j]) THEN 1 ELSE 0) + CountTerms(terms, test, j + 1)

\* The sum of the weights (in tenths) of the entries <<keyword, weight>> whose
\* keyword satisfies a test.
RECURSIVE SumWeights(_, _, _)
SumWeights(table, test(_), j) ==
    IF j > Len(table) THEN 0
    ELSE (IF test(table[j][1]) THEN table[j][2] ELSE 0) + SumWeights(table, test, j + 1)

\* formal_materials and casual_materials, weights in tenths.
formality_materials ==
    <<<<"wool", 15>>, <<"cashmere", 20>>, <<"silk", 18>>, <<"leather", 10>>,
      <<"tweed", 15>>, <<"linen", 8>>, <<"velvet", 15>>, <<"satin", 13>>,
      <<"cotton", -8>>, <<"denim", -15>>, <<"fleece", -18>>, <<"jersey", -13>>,
      <<"spandex", -12>>, <<"polyester", -5>>, <<"canvas", -10>>>>

\* formal_types and casual_types.
formality_types ==
    <<<<"suit", 30>>, <<"blazer", 25>>, <<"dress shirt", 20>>, <<"oxford", 18>>,
      <<"loafers", 15>>, <<"dress", 18>>, <<"slacks", 15>>, <<"coat", 10>>,
      <<"tie", 20>>, <<"bow tie", 25>>, <<"dress pants", 20>>, <<"pumps", 18>>,
      <<"heels", 15>>, <<"gown", 30>>, <<"tuxedo", 40>>,
      <<"t-shirt", -15>>, <<"hoodie", -20>>, <<"sweatshirt", -18>>, <<"jeans", -15>>,
      <<"sneakers", -15>>, <<"shorts", -20>>, <<"flip-flops", -25>>, <<"tank", -13>>,
      <<"sandals", -10>>, <<"sweatpants", -25>>, <<"joggers", -20>>, <<"beanie", -10>>>>

\* formality_descriptors and casual_descriptors, then formal_adj (+0.5 each)
\* and casual_adj (-0.5 each).
formality_words ==
    <<<<"formal", 20>>, <<"business", 18>>, <<"professional", 15>>, <<"elegant", 18>>,
      <<"sophisticated", 15>>, <<"dressy", 13>>, <<"upscale", 18>>, <<"evening", 15>>,
      <<"fancy", 13>>, <<"polished", 10>>, <<"refined", 13>>, <<"smart", 10>>,
      <<"casual", -15>>, <<"relaxed", -13>>, <<"everyday", -10>>, <<"laid-back", -15>>,
      <<"comfortable", -8>>, <<"cozy", -10>>, <<"slouchy", -15>>, <<"distressed", -13>>,
      <<"worn-in", -10>>, <<"sporty", -12>>, <<"athleisure", -15>>, <<"lounge", -18>>,
      <<"tailored", 5>>, <<"structured", 5>>, <<"pressed", 5>>, <<"starched", 5>>,
      <<"crisp", 5>>,
      <<"baggy", -5>>, <<"loose", -5>>, <<"comfortable", -5>>, <<"oversized", -5>>,
      <<"distressed", -5>>>>

\* _calculate_formality, in tenths.  `adj in adjectives or adj in description`
\* is `adj in description`: an adjective of the parsed text is one of its
\* tokens, so a substring of it.
CalculateFormality(description, materials, types) ==
    LET desc == Lower(description)
        formality_score ==
            50 + SumWeights(formality_materials, LAMBDA m : InSeq(m, materials), 1)
               + SumWeights(formality_types,
                            LAMBDA t : InSeq(t, types) \/ Contains(desc, t), 1)
               + SumWeights(formality_words, LAMBDA w : Contains(desc, w), 1)
    IN  IF formality_score > MaxFormality THEN MaxFormality
        ELSE IF formality_score < MinFormality THEN MinFormality
        ELSE formality_score

Seasons == <<"spring", "summer", "fall", "winter">>

season_materials ==
    [summer |-> <<"linen", "cotton", "chambray", "mesh", "chiffon", "rayon">>,
     winter |-> <<"wool", "cashmere", "flannel", "velvet", "fleece", "sherpa", "fur", "suede">>,
     spring |-> <<"cotton", "linen", "light wool", "poplin", "silk">>,
     fall   |-> <<"corduroy", "tweed", "leather", "denim", "suede", "flannel">>]

season_items ==
    [summer |-> <<"shorts", "sandals", "tank", "sleeveless", "short sleeve", "sundress", "swimwear">>,
     winter |-> <<"sweater", "coat", "boots", "gloves", "scarf", "parka", "beanie", "turtleneck">>,
     spring |-> <<"light jacket", "cardigan", "rain jacket", "windbreaker", "loafers", "flats">>,
     fall   |-> <<"jacket", "light sweater", "blazer", "hoodie", "ankle boots", "vest">>]

season_descriptors ==
    [summer |-> <<"lightweight", "breathable", "cooling", "airy", "tropical">>,
     winter |-> <<"warm", "insulated", "heavy", "thick", "cozy", "thermal", "heated">>,
     spring |-> <<"light", "pastel", "floral", "bright", "rain-resistant">>,
     fall   |-> <<"layering", "earth tone", "rich", "mid-weight", "rust">>]

color_seasonality ==
    [spring |-> <<"pastel", "mint", "peach", "pink", "light blue", "yellow", "lavender">>,
     summer |-> <<"bright", "neon", "coral", "turquoise", "white", "yellow", "hot pink", "aqua">>,
     fall   |-> <<"burgundy", "mustard", "olive", "rust", "brown", "orange", "forest green", "mauve">>,
     winter |-> <<"black", "navy", "dark green", "burgundy", "charcoal", "silver", "white", "red">>]

\* The raw seasonality scores before normalisation, in hundredths.
RawSeasonality(description, materials) ==
    LET desc_lower == Lower(description)
        mat(season) == CountTerms(materials, LAMBDA m : InSeq(m, season_materials[season]), 1)
        itm(season) == CountTerms(season_items[season], LAMBDA t : Contains(desc_lower, t), 1)
        dsc(season) == CountTerms(season_descriptors[season], LAMBDA t : Contains(desc_lower, t), 1)
        col(season) == CountTerms(color_seasonality[season], LAMBDA t : Contains(desc_lower, t), 1)
        named(season) == IF Contains(desc_lower, season) THEN 30 ELSE 0
    IN  [spring |-> 25 + 10 * mat("spring") + 15 * itm("spring") + 10 * dsc("spring")
                       + named("spring") + 8 * col("spring"),
         summer |-> 25 + 15 * mat("summer") - 10 * mat("winter")
                       + 20 * itm("summer") - 15 * itm("winter")
                       + 15 * dsc("summer") - 10 * dsc("winter")
                       + named("summer") + 8 * col("summer"),
         fall   |-> 25 + 10 * mat("fall") + 15 * itm("fall") + 10 * dsc("fall")
                       + named("fall") + 8 * col("fall"),
         winter |-> 25 + 15 * mat("winter") - 10 * mat("summer")
                       + 20 * itm("winter") - 15 * itm("summer")
                       + 15 * dsc("winter") - 10 * dsc("summer")
                       + named("winter") + 8 * col("winter")]

\* _determine_seasonality with the division alone, no floor.
DetermineSeasonalityUnfloored(description, materials) ==
    LET raw == RawSeasonality(description, materials)
        total == raw.spring + raw.summer + raw.fall + raw.winter
    IN  [spring |-> Rat(raw.spring, total), summer |-> Rat(raw.summer, total),
         fall |-> Rat(raw.fall, total), winter |-> Rat(raw.winter, total)]

\* _determine_seasonality: each raw score divided by the total, floored at 0.05.
DetermineSeasonality(description, materials) ==
    LET raw == RawSeasonality(description, materials)
        total == raw.spring + raw.summer + raw.fall + raw.winter
        share(n) == RMax(Rat(5, 100), Rat(n, total))
    IN  [spring |-> share(raw.spring), summer |-> share(raw.summer),
         fall |-> share(raw.fall), winter |-> share(raw.winter)]

patterns ==
    <<<<"solid", <<"solid", "plain", "basic", "single color", "one color">>>>,
      <<"striped", <<"stripe", "striped", "stripes", "pinstripe", "vertical stripe", "horizontal stripe">>>>,
      <<"plaid", <<"plaid", "tartan", "check", "checked", "checkered", "gingham">>>>,
      <<"floral", <<"floral", "flower", "flowers", "botanical", "rose", "daisy">>>>,
      <<"polka dot", <<"polka dot", "polka-dot", "dots", "spotted", "dot pattern">>>>,
      <<"animal print", <<"animal print", "leopard", "zebra", "cheetah", "snake", "python", "crocodile", "tiger">>>>,
      <<"geometric", <<"geometric", "triangle", "square", "diamond pattern", "hexagon", "chevron", "zigzag">>>>,
      <<"print", <<"print", "pattern", "graphic", "design", "logo", "motif">>>>,
      <<"colorblock", <<"colorblock", "color-block", "color block", "two-tone", "two tone">>>>>>

\* The name of the first entry of an ordered table <<name, keywords>> one of
\* whose keywords occurs in the text; the default if none does.
RECURSIVE FirstMatch(_, _, _, _)
FirstMatch(table, text, default, j) ==
    IF j > Len(table) THEN default
    ELSE IF ContainsAny(text, table[j][2]) THEN table[j][1]
    ELSE FirstMatch(table, text, default, j + 1)

ExtractPattern(description) == FirstMatch(patterns, Lower(description), "solid", 1)

fits ==
    <<<<"slim", <<"slim", "fitted", "tailored", "skinny", "tight", "form-fitting", "narrow">>>>,
      <<"regular", <<"regular", "classic", "standard", "straight", "normal">>>>,
      <<"loose", <<"loose", "relaxed", "oversized", "baggy", "wide", "boxy", "roomy">>>>,
      <<"stretchy", <<"stretchy", "stretch", "flexible", "elastic", "spandex">>>>>>

ExtractFit(description) == FirstMatch(fits, Lower(description), "regular", 1)

\* The fields of _extract_features_from_description that scoring and selection read.
neutral_colors == <<"black", "white", "gray", "navy", "beige", "cream", "tan", "khaki", "brown">>
vibrant_colors == <<"neon", "bright", "hot pink", "electric blue", "lime green">>
basic_types == <<"t-shirt", "shirt", "jeans", "pants", "sweater", "blazer">>
versatile_materials == <<"cotton", "denim", "polyester", "wool">>
delicate_materials == <<"silk", "cashmere", "suede", "velvet">>

\* any(x in table for x in names)
AnyIn(names, table) == \E j \in 1..Len(names) : InSeq(names[j], table)

\* ' '.join(xs)
JoinWords(xs) ==
    LET RECURSIVE Join(_)
        Join(j) == IF j > Len(xs) THEN ""
                   ELSE IF j = Len(xs) THEN xs[j]
                   ELSE xs[j] \o " " \o Join(j + 1)
    IN  Join(1)

\* versatility_score of _calculate_versatility as it stands at line 728,
\* before the clamp, in tenths; formality is in tenths too.
VersatilityScore(colors, materials, types, pattern, formality) ==
    50
    + (IF AnyIn(colors, neutral_colors) THEN 20 ELSE 0)
    - (IF ContainsAny(JoinWords(colors), vibrant_colors) THEN 15 ELSE 0)
    + (IF pattern = "solid" THEN 15
       ELSE IF pattern \in {"floral", "animal print", "geometric"} THEN -10 ELSE 0)
    + (IF AnyIn(types, basic_types) THEN 10 ELSE 0)
    + (IF 40 <= formality /\ formality <= 70 THEN 15
       ELSE IF formality < 30 \/ formality > 80 THEN -10 ELSE 0)
    + (IF AnyIn(materials, versatile_materials) THEN 10 ELSE 0)
    - (IF AnyIn(materials, delicate_materials) THEN 10 ELSE 0)

\* max(0, min(10, versatility_score))
CalculateVersatility(colors, materials, types, pattern, formality) ==
    LET versatility_score == VersatilityScore(colors, materials, types, pattern, formality)
    IN  IF versatility_score < 0 THEN 0
        ELSE IF versatility_score > 100 THEN 100 ELSE versatility_score

ExtractFeatures(description) ==
    LET color_names == VocabularyNames(color_list, description)
        material_names == VocabularyNames(material_list, description)
        type_names == VocabularyNames(clothing_types, description)
        formality == CalculateFormality(description, material_names, type_names)
        pattern == ExtractPattern(description)
    IN  [description |-> description,
         color_names |-> color_names,
         material_names |-> material_names,
         type_names |-> type_names,
         category |-> DetermineCategory(description, type_names),
         formality |-> formality,
         seasonality |-> DetermineSeasonality(description, material_names),
         pattern |-> pattern,
         fit |-> ExtractFit(description),
         versatility |-> CalculateVersatility(color_names, material_names, type_names,
                                              pattern, formality)]

\* A wardrobe of garment descriptions covering the six categories, with two
\* tops that extract to the same features and one that does not.
Catalogue ==
    {"blue shirt", "Green shirt", "black cotton t-shirt", "navy wool dress pants",
     "brown leather loafers", "red silk tie", "floral maxi dress",
     "heavy wool winter coat"}

\* process_clothing_items: the features of one description.
\* _extract_features_from_description reads only its argument and the fixed
\* vocabularies; its value for each description of the catalogue is computed
\* once, in the initial state, and read here.
ProcessClothingItem(description) == extracted[description]

\* Descriptions to extract from: an opening word, a material or season word,
\* and a garment or a thing no vocabulary knows.
LeadWords ==
    {"", "heavy ", "lightweight ", "Striped slim ", "Tailored ", "plain ",
     "layering ", "neon green ", "bright ", "hot pink "}
MiddleWords == {"", "wool ", "cotton ", "wool winter ", "summer "}
Garments ==
    {"coat", "shorts", "sandals", "tuxedo", "thing", "gift card", "stopwatch", "umbrella",
     "shirt", "dress with shoes", "dress pants", "cardigan", "cardigans",
     "cardigan coat", "cardigan and pants", "cardigans and pants"}

\* The description to extract from is drawn here; the call is still to come.
FxInit ==
    /\ fmPrev = NoCall
    /\ fmLast = NoCall
    /\ wxCall = NoCall
    /\ \E a \in LeadWords, b \in MiddleWords, c \in Garments :
          fxCall = [called |-> FALSE, description |-> a \o b \o c]
    /\ ocCall = NoCall
    /\ EngineIdle
    /\ NoThreads
    /\ NoRegistrations
    /\ AppIdle

\* One call of _extract_features_from_description; raw is seasonality as it
\* stands at line 596, before the normalisation, in hundredths.
ExtractFeaturesCall ==
    /\ ~fxCall.called
    /\ \E features \in {ExtractFeatures(fxCall.description)} :
          fxCall' = [called |-> TRUE, description |-> fxCall.description,
                     features |-> features,
                     raw |-> RawSeasonality(fxCall.description, features.material_names),
                     versatility_score |->
                         VersatilityScore(features.color_names, features.material_names,
                                          features.type_names, features.pattern,
                                          features.formality)]
    /\ UNCHANGED <<fmPrev, fmLast, wxCall, ocCall>>
    /\ UNCHANGED engineVars
    /\ UNCHANGED serviceVars
    /\ UNCHANGED appVars

FxNext == ExtractFeaturesCall

SpecExtraction == FxInit /\ [][FxNext]_vars

SeasonalitySum(seasonality) ==
    RAdd(RAdd(seasonality.spring, seasonality.summer),
         RAdd(seasonality.fall, seasonality.winter))

RawTotal(raw) == raw.spring + raw.summer + raw.fall + raw.winter

\* C12: the four seasonality values _determine_seasonality returns sum to 1,
\* also when a raw score is zero or below.
SeasonalitySumsToOne ==
    fxCall.called => SeasonalitySum(fxCall.features.seasonality) = ROne

\* C13: each of the four seasonality values is at least 0.05, and the total
\* the normalisation divides by is at least 1.
SeasonalityFloor ==
    fxCall.called =>
        /\ \A j \in 1..Len(Seasons) :
              RLeq(Rat(5, 100), fxCall.features.seasonality[Seasons[j]])
        /\ RawTotal(fxCall.raw) >= 100

\* A raw score below zero lifted to the floor: the winter coat's summer share.
SeasonalityFloorWitness ==
    /\ fxCall.called
    /\ fxCall.description = "heavy wool winter coat"
    /\ fxCall.raw.summer < 0
    /\ fxCall.features.seasonality.summer = Rat(5, 100)
    /\ RawTotal(fxCall.raw) > 100

\* No keyword of a vocabulary occurs in the lower-cased description.
NoKeywordOf(vocabulary, description) ==
    \A j \in 1..Len(vocabulary) : ~Contains(Lower(description), vocabulary[j])

Unrecognized(description) ==
    /\ NoKeywordOf(color_list, description)
    /\ NoKeywordOf(material_list, description)
    /\ NoKeywordOf(clothing_types, description)

\* No keyword of an ordered table <<name, ...>> occurs in the description.
NoEntryOf(table, description) ==
    \A j \in 1..Len(table) : ~Contains(Lower(description), table[j][1])

NoKeywordOfAny(table, description) ==
    \A j \in 1..Len(table) : NoKeywordOf(table[j][2], description)

\* C14 as stated: a description with no color, material or clothing-type
\* keyword extracts to category accessory, pattern solid and fit regular, and
\* to formality 5.0 when no formality modifier occurs in it.
UnrecognizedGetsAllDefaults ==
    (fxCall.called /\ Unrecognized(fxCall.description)) =>
        /\ fxCall.features.category = "accessory"
        /\ fxCall.features.pattern = "solid"
        /\ fxCall.features.fit = "regular"
        /\ (NoEntryOf(formality_types, fxCall.description)
             /\ NoEntryOf(formality_words, fxCall.description))
            => fxCall.features.formality = 50

\* C14 amended: such a description extracts to category accessory; to
\* formality 5.0 when no formality modifier occurs in it; to pattern solid
\* when no pattern keyword occurs in it and to fit regular when no fit keyword
\* does; a pattern or fit keyword sets the pattern or fit all the same.
UnrecognizedDefaults ==
    (fxCall.called /\ Unrecognized(fxCall.description)) =>
        /\ fxCall.features.category = "accessory"
        /\ fxCall.features.color_names = <<>>
        /\ fxCall.features.material_names = <<>>
        /\ fxCall.features.type_names = <<>>
        /\ (NoEntryOf(formality_types, fxCall.description)
             /\ NoEntryOf(formality_words, fxCall.description))
            => fxCall.features.formality = 50
        /\ NoKeywordOfAny(patterns, fxCall.description) => fxCall.features.pattern = "solid"
        /\ NoKeywordOfAny(fits, fxCall.description) => fxCall.features.fit = "regular"
        /\ fxCall.features.pattern = FirstMatch(patterns, Lower(fxCall.description), "solid", 1)
        /\ fxCall.features.fit = FirstMatch(fits, Lower(fxCall.description), "regular", 1)

\* An unrecognized description with all four defaults.
UnrecognizedDefaultsWitness ==
    /\ fxCall.called
    /\ fxCall.description = "gift card"
    /\ Unrecognized(fxCall.description)
    /\ fxCall.features.category = "accessory"
    /\ fxCall.features.formality = 50
    /\ fxCall.features.pattern = "solid"
    /\ fxCall.features.fit = "regular"

---------------------------------------------------------------------------
\* The categories with a term among the recognised type names, and those with
\* a term that occurs in the lower-cased description.
TypeCategories(type_names) ==
    {c \in DOMAIN category_mappings : AnyIn(type_names, category_mappings[c])}

TextCategories(description) ==
    {c \in DOMAIN category_mappings : ContainsAny(Lower(description), category_mappings[c])}

\* The category of a set that comes first in the order top, bottom,
\* one_piece, outerwear, footwear, accessory.
FirstInOrder(cats) == CHOOSE c \in cats : \A d \in cats : MappingIndex(c) <= MappingIndex(d)

\* C22 as stated: when the recognised type terms belong to more than one
\* category, the category is the first of them in the fixed order; the
\* description scan decides only when no type term matched, and accessory is
\* the default only when the scan fails too.
FirstTypeCategoryAlways ==
    fxCall.called =>
        LET typed == TypeCategories(fxCall.features.type_names)
            scanned == TextCategories(fxCall.description)
        IN  /\ Cardinality(typed) > 1 => fxCall.features.category = FirstInOrder(typed)
            /\ (typed = {} /\ scanned # {}) => fxCall.features.category = FirstInOrder(scanned)
            /\ (typed = {} /\ scanned = {}) => fxCall.features.category = "accessory"

\* C22 amended: when the recognised type terms belong to one category or more
\* and 'cardigan' is not among them, the category is the first of those
\* categories in the fixed order; when 'cardigan' is among them the category
\* is top or outerwear, whatever the other type terms; the description scan
\* decides only when no type term matched, and accessory is the default only
\* when the scan fails too.
FirstTypeCategoryWins ==
    fxCall.called =>
        LET typed == TypeCategories(fxCall.features.type_names)
            scanned == TextCategories(fxCall.description)
        IN  /\ (typed # {} /\ ~InSeq("cardigan", fxCall.features.type_names))
                => fxCall.features.category = FirstInOrder(typed)
            /\ InSeq("cardigan", fxCall.features.type_names)
                => fxCall.features.category \in {"top", "outerwear"}
            /\ (typed = {} /\ scanned # {}) => fxCall.features.category = FirstInOrder(scanned)
            /\ (typed = {} /\ scanned = {}) => fxCall.features.category = "accessory"

\* 'dress' and 'shoes' are both recognised; the category is one_piece.
FirstTypeCategoryWitness ==
    /\ fxCall.called
    /\ fxCall.description = "dress with shoes"
    /\ TypeCategories(fxCall.features.type_names) = {"one_piece", "footwear"}
    /\ fxCall.features.category = "one_piece"

\* C23: a description that mentions a cardigan extracts to outerwear if it
\* contains 'layer', 'jacket' or 'coat', and to top otherwise, whichever step
\* recognises the cardigan and whatever other type terms it contains.
CardiganRule ==
    (fxCall.called /\ Contains(Lower(fxCall.description), "cardigan")) =>
        fxCall.features.category =
            IF ContainsAny(Lower(fxCall.description), <<"layer", "jacket", "coat">>)
            THEN "outerwear" ELSE "top"

\* s begins with prefix.
StartsWith(s, prefix) == Len(prefix) <= Len(s) /\ SubSeq(s, 1, Len(prefix)) = prefix

\* The signals of _calculate_versatility other than the vibrant-colour one
\* are the same for two extractions.
SameOtherSignals(a, b) ==
    /\ AnyIn(a.color_names, neutral_colors) = AnyIn(b.color_names, neutral_colors)
    /\ a.pattern = b.pattern
    /\ AnyIn(a.type_names, basic_types) = AnyIn(b.type_names, basic_types)
    /\ a.formality = b.formality
    /\ AnyIn(a.material_names, versatile_materials) = AnyIn(b.material_names, versatile_materials)
    /\ AnyIn(a.material_names, delicate_materials) = AnyIn(b.material_names, delicate_materials)

\* C25: a description that opens with a vibrant colour word has a
\* versatility, before the clamp, 1.5 below that of the description without
\* the word, all other signals equal.
VibrantColorPenalty ==
    fxCall.called =>
        \A j \in 1..Len(vibrant_colors) :
            StartsWith(fxCall.description, vibrant_colors[j] \o " ") =>
                \E plain \in {ExtractFeatures(SubSeq(fxCall.description,
                                                    Len(vibrant_colors[j]) + 2,
                                                    Len(fxCall.description)))} :
                    SameOtherSignals(fxCall.features, plain) =>
                        fxCall.versatility_score =
                            VersatilityScore(plain.color_names, plain.material_names,
                                             plain.type_names, plain.pattern,
                                             plain.formality) - 15

---------------------------------------------------------------------------
(* Scoring: _calculate_weather_appropriateness and the overall score       *)

\* weather_season_map, weights in tenths.
weather_season_map ==
    [hot   |-> <<<<"summer", 8>>, <<"spring", 2>>>>,
     cold  |-> <<<<"winter", 8>>, <<"fall", 2>>>>,
     wet   |-> <<<<"fall", 4>>, <<"spring", 4>>, <<"winter", 2>>>>,
     windy |-> <<<<"fall", 5>>, <<"spring", 3>>, <<"winter", 2>>>>,
     mild  |-> <<<<"spring", 5>>, <<"fall", 3>>, <<"summer", 2>>>>]

\* material_weather_suitability: the categories that have an entry, in order.
MaterialWeatherCats == <<"hot", "cold", "wet", "windy">>

material_weather_suitability ==
    [hot   |-> [good |-> <<"cotton", "linen", "silk", "rayon", "chambray">>,
                bad  |-> <<"wool", "leather", "fleece", "velvet", "cashmere">>],
     cold  |-> [good |-> <<"wool", "cashmere", "fleece", "leather", "down", "fur", "sherpa">>,
                bad  |-> <<"linen", "silk", "mesh", "chiffon">>],
     wet   |-> [good |-> <<"polyester", "nylon", "gore-tex", "vinyl", "leather", "wool">>,
                bad  |-> <<"suede", "silk", "cotton", "velvet">>],
     windy |-> [good |-> <<"leather", "denim", "wool", "polyester", "nylon">>,
                bad  |-> <<"silk", "light cotton", "chiffon", "loose weave">>]]

\* ' '.join(xs)
RECURSIVE JoinWith(_, _)
JoinWith(xs, sep) ==
    IF Len(xs) = 0 THEN ""
    ELSE IF Len(xs) = 1 THEN xs[1]
    ELSE xs[1] \o sep \o JoinWith(Tail(xs), sep)

\* The season-based loop: sum of weight * season_weight * seasonality[season].
RECURSIVE SeasonScore(_, _, _)
SeasonScore(seasonality, weather_categories, j) ==
    LET RECURSIVE Inner(_, _, _)
        Inner(map, weight, k) ==
            IF k > Len(map) THEN RZero
            ELSE RAdd(RMul(RMul(weight, Rat(map[k][2], 10)), seasonality[map[k][1]]),
                      Inner(map, weight, k + 1))
    IN  IF j > Len(WeatherCats) THEN RZero
        ELSE RAdd(Inner(weather_season_map[WeatherCats[j]],
                        weather_categories[WeatherCats[j]], 1),
                  SeasonScore(seasonality, weather_categories, j + 1))

\* The material-based loop, from the neutral 0.5.
RECURSIVE MaterialScore(_, _, _)
MaterialScore(material_names, weather_categories, j) ==
    IF j > Len(MaterialWeatherCats) THEN Rat(5, 10)
    ELSE LET cat == MaterialWeatherCats[j]
             step == RMul(weather_categories[cat], Rat(3, 10))
             any(list) == \E i \in 1..Len(material_names) : InSeq(material_names[i], list)
             plus == IF any(material_weather_suitability[cat].good) THEN step ELSE RZero
             minus == IF any(material_weather_suitability[cat].bad) THEN step ELSE RZero
         IN  RAdd(RSub(plus, minus),
                  MaterialScore(material_names, weather_categories, j + 1))

CalculateWeatherAppropriateness(item_features, weather_categories) ==
    LET very_wet == RLess(Rat(5, 10), weather_categories["wet"])
        pattern_bonus ==
            IF very_wet /\ item_features.pattern \in {"dark", "patterned", "print", "plaid"}
            THEN Rat(1, 10) ELSE RZero
        footwear_bonus ==
            IF /\ very_wet
               /\ item_features.category = "footwear"
               /\ ContainsAny(JoinWith(item_features.type_names, " "),
                              <<"boots", "waterproof", "water-resistant">>)
            THEN Rat(2, 10) ELSE RZero
        weather_score == RAdd(RAdd(SeasonScore(item_features.seasonality, weather_categories, 1),
                                   pattern_bonus), footwear_bonus)
        material_score == MaterialScore(item_features.material_names, weather_categories, 1)
        combined_score == RAdd(RMul(weather_score, Rat(7, 10)), RMul(material_score, Rat(3, 10)))
    IN  RMin(ROne, RMax(RZero, combined_score))

---------------------------------------------------------------------------
(* _calculate_occasion_score: the formality it returns, in tenths          *)

\* self.occasion_formality as __init__ builds it, in the dict's order.
InitialOccasionFormality ==
    <<<<"casual", 1>>, <<"everyday", 2>>, <<"lounging", 1>>, <<"weekend", 2>>,
      <<"home", 1>>, <<"errands", 2>>, <<"work", 5>>, <<"office", 6>>,
      <<"business", 7>>, <<"business casual", 5>>, <<"date", 6>>, <<"party", 5>>,
      <<"celebration", 6>>, <<"ceremony", 8>>, <<"formal", 8>>, <<"wedding", 9>>,
      <<"black tie", 10>>, <<"interview", 8>>, <<"presentation", 7>>,
      <<"networking", 6>>, <<"conference", 6>>, <<"funeral", 9>>,
      <<"graduation", 7>>, <<"concert", 4>>, <<"dinner", 6>>, <<"brunch", 4>>,
      <<"cocktail", 7>>>>

\* The keyword loop: the first key of the dict contained in the lowered
\* occasion decides; 5.0 when none is.
RECURSIVE OccasionFormality(_, _, _)
OccasionFormality(occasion_formality, occasion_lower, j) ==
    IF j > Len(occasion_formality) THEN 50
    ELSE IF Contains(occasion_lower, occasion_formality[j][1])
         THEN 10 * occasion_formality[j][2]
         ELSE OccasionFormality(occasion_formality, occasion_lower, j + 1)

\* _calculate_occasion_score answering for the occasion of the call before,
\* once there was one.
CalculateOccasionScoreStale(occasion_formality, occasion) ==
    [formality |-> OccasionFormality(occasion_formality,
                                     Lower(IF request.called THEN request.occasion
                                           ELSE occasion), 1)]

\* The keyword loop without its break: the last key contained decides.
RECURSIVE LastOccasionFormality(_, _, _)
LastOccasionFormality(occasion_formality, occasion_lower, j) ==
    IF j < 1 THEN 50
    ELSE IF Contains(occasion_lower, occasion_formality[j][1])
         THEN 10 * occasion_formality[j][2]
         ELSE LastOccasionFormality(occasion_formality, occasion_lower, j - 1)

CalculateOccasionScoreLastMatch(occasion_formality, occasion) ==
    [formality |-> LastOccasionFormality(occasion_formality, Lower(occasion),
                                         Len(occasion_formality))]

\* occasion_scores['formality'], the entry suggest_outfit reads.
CalculateOccasionScore(occasion_formality, occasion) ==
    [formality |-> OccasionFormality(occasion_formality, Lower(occasion), 1)]

\* Occasion texts: an opening word, a word of the table or of none, an ending.
OccasionOpenings == {"", "Business ", "casual ", "Formal "}
OccasionWords ==
    {InitialOccasionFormality[j][1] : j \in 1..Len(InitialOccasionFormality)}
        \cup {"picnic", "gym session"}
OccasionEndings == {"", " dinner"}

\* The occasion text is drawn here; the call is still to come.
OcInit ==
    /\ fmPrev = NoCall
    /\ fmLast = NoCall
    /\ wxCall = NoCall
    /\ fxCall = NoCall
    /\ \E a \in OccasionOpenings, b \in OccasionWords, c \in OccasionEndings :
          ocCall = [called |-> FALSE, occasion |-> a \o b \o c]
    /\ EngineIdle
    /\ NoThreads
    /\ NoRegistrations
    /\ AppIdle

CalculateOccasionScoreCall ==
    /\ ~ocCall.called
    /\ ocCall' = [called |-> TRUE, occasion |-> ocCall.occasion,
                  occasion_scores |->
                      CalculateOccasionScore(InitialOccasionFormality, ocCall.occasion)]
    /\ UNCHANGED <<fmPrev, fmLast, wxCall, fxCall>>
    /\ UNCHANGED engineVars
    /\ UNCHANGED serviceVars
    /\ UNCHANGED appVars

OcNext == CalculateOccasionScoreCall

SpecOccasion == OcInit /\ [][OcNext]_vars

\* The positions of the table whose keyword occurs in the lower-cased text.
MatchingEntries(occasion) ==
    {j \in 1..Len(InitialOccasionFormality) :
        Contains(Lower(occasion), InitialOccasionFormality[j][1])}

\* C17: formality is the score of the first entry of the table, in its fixed
\* order, whose keyword is a substring of the lower-cased occasion, whatever
\* later entries match; it is 5.0 when no keyword occurs.
FirstOccasionKeywordWins ==
    ocCall.called =>
        LET matching == MatchingEntries(ocCall.occasion)
        IN  IF matching = {}
            THEN ocCall.occasion_scores.formality = 50
            ELSE \E j \in matching :
                    /\ \A k \in matching : j <= k
                    /\ ocCall.occasion_scores.formality
                           = 10 * InitialOccasionFormality[j][2]

\* C26: each keyword of the table, given verbatim as the occasion, yields its
\* own score as the formality.
KeywordYieldsOwnScore ==
    ocCall.called =>
        \A j \in 1..Len(InitialOccasionFormality) :
            ocCall.occasion = InitialOccasionFormality[j][1] =>
                ocCall.occasion_scores.formality = 10 * InitialOccasionFormality[j][2]

\* "Business casual": casual (1.0) is the first entry that matches, business
\* (7.0) and business casual (5.0) match later and do not override it.
FirstOccasionKeywordWitness ==
    /\ ocCall.called
    /\ ocCall.occasion = "Business casual"
    /\ Cardinality(MatchingEntries(ocCall.occasion)) = 3
    /\ ocCall.occasion_scores.formality = 10

---------------------------------------------------------------------------
(* suggest_outfit and format_outfit_suggestion                             *)

\* The attributes of an instance that suggest_outfit reads, as __init__ sets them.
NewSuggester ==
    [occasion_formality |-> InitialOccasionFormality,
     weather_categories |-> InitialWeatherCategories]

\* One row of the frame with the two scores weighted alike.
ScoredRowEvenWeights(index, features, weather_score, formality_score) ==
    [index |-> index,
     description |-> features.description,
     category |-> features.category,
     weather_score |-> weather_score,
     formality_score |-> formality_score,
     overall_score |-> RAdd(RMul(weather_score, Rat(5, 10)),
                            RMul(formality_score, Rat(5, 10)))]

\* One row of the frame: the description's position in the input list, the
\* features selection reads, and the three score columns.
ScoredRow(index, features, weather_score, formality_score) ==
    [index |-> index,
     description |-> features.description,
     category |-> features.category,
     weather_score |-> weather_score,
     formality_score |-> formality_score,
     overall_score |-> RAdd(RMul(weather_score, Rat(4, 10)),
                            RMul(formality_score, Rat(6, 10)))]

\* process_clothing_items and the three score columns, row by row from row i.
RECURSIVE ScoredRows(_, _, _, _)
ScoredRows(clothing_descriptions, weather, occasion_features, i) ==
    IF i > Len(clothing_descriptions) THEN <<>>
    ELSE <<ScoredRow(i, ProcessClothingItem(clothing_descriptions[i]),
                     CalculateWeatherAppropriateness(
                         ProcessClothingItem(clothing_descriptions[i]), weather),
                     CalculateFormalityMatch(
                         ProcessClothingItem(clothing_descriptions[i]).formality,
                         occasion_features.formality))>>
         \o ScoredRows(clothing_descriptions, weather, occasion_features, i + 1)

\* The category names in ascending string order, as sort_values compares them.
CategoriesAscending == <<"accessory", "bottom", "footwear", "one_piece", "outerwear", "top">>

CategoryRank(c) == CHOOSE j \in 1..Len(CategoriesAscending) : CategoriesAscending[j] = c

\* SortsBefore with rows of equal score exchanged as well.
SortsBeforeOrTied(a, b) ==
    \/ CategoryRank(a.category) < CategoryRank(b.category)
    \/ /\ a.category = b.category
       /\ ~RLess(a.overall_score, b.overall_score)

\* Row a sorts strictly before row b: category ascending, overall_score descending.
SortsBefore(a, b) ==
    \/ CategoryRank(a.category) < CategoryRank(b.category)
    \/ /\ a.category = b.category
       /\ RLess(b.overall_score, a.overall_score)

\* sort_values(['category', 'overall_score'], ascending=[True, False]): with
\* several keys pandas sorts with a stable lexsort, so rows with equal keys
\* keep their input order.
RECURSIVE SortValues(_)
SortValues(rows) ==
    IF Len(rows) = 0 THEN rows
    ELSE LET sorted == SortValues(SubSeq(rows, 1, Len(rows) - 1))
             x == rows[Len(rows)]
             k == Cardinality({j \in 1..Len(sorted) : ~SortsBefore(x, sorted[j])})
         IN  SubSeq(sorted, 1, k) \o <<x>> \o SubSeq(sorted, k + 1, Len(sorted))

\* The frame unfiltered: every row, whatever its category.
CategoryItemsUnfiltered(df, category) == df

\* clothing_df[clothing_df['category'] == category]
CategoryItems(df, category) == SelectSeq(df, LAMBDA row : row.category = category)

\* Placeholder without the category's name.
PlaceholderUnnamed(category) == "No suitable item found"

Placeholder(category) == "No suitable " \o category \o " found"

\* UseOnePiece without the threshold.
UseOnePieceWhenPresent(one_piece_items) == Len(one_piece_items) > 0

\* RequiredCategories keeping top and bottom beside a one-piece.
RequiredCategoriesKept(use_one_piece) == <<"top", "bottom", "footwear">>

\* OuterwearWarranted in any weather.
OuterwearAlwaysWarranted(temperature, weather_categories) == TRUE

\* OuterwearWarranted without the temperature test.
OuterwearWarrantedByRainOrWind(temperature, weather_categories) ==
    \/ RLess(Rat(4, 10), weather_categories.wet)
    \/ RLess(Rat(4, 10), weather_categories.windy)

\* not one_piece_items.empty and one_piece_items.iloc[0]['overall_score'] > 0.7
UseOnePiece(one_piece_items) ==
    /\ Len(one_piece_items) > 0
    /\ RLess(Rat(7, 10), one_piece_items[1].overall_score)

\* required_categories, after a one-piece took the place of top and bottom.
RequiredCategories(use_one_piece) ==
    IF use_one_piece THEN <<"footwear">> ELSE <<"top", "bottom", "footwear">>

\* The extra condition on outerwear.
OuterwearWarranted(temperature, weather_categories) ==
    \/ temperature < 20
    \/ RLess(Rat(4, 10), weather_categories.wet)
    \/ RLess(Rat(4, 10), weather_categories.windy)

\* An entry of the outfit: the slot, its text, and the input position of the
\* row it came from (0 for a placeholder).
Entry(category, items) ==
    [key |-> category, value |-> items[1].description, row |-> items[1].index]

\* The loop over required_categories: the best item, or the placeholder.
RECURSIVE RequiredEntries(_, _, _)
RequiredEntries(df, required_categories, j) ==
    IF j > Len(required_categories) THEN <<>>
    ELSE <<IF Len(CategoryItems(df, required_categories[j])) > 0
           THEN Entry(required_categories[j], CategoryItems(df, required_categories[j]))
           ELSE [key |-> required_categories[j],
                 value |-> Placeholder(required_categories[j]), row |-> 0]>>
         \o RequiredEntries(df, required_categories, j + 1)

\* The loop over optional_categories: the best item if it scores above 0.6
\* and, for outerwear, the weather warrants it.
RECURSIVE OptionalEntries(_, _, _, _)
OptionalEntries(df, optional_categories, warranted, j) ==
    IF j > Len(optional_categories) THEN <<>>
    ELSE (IF /\ Len(CategoryItems(df, optional_categories[j])) > 0
             /\ RLess(Rat(6, 10), CategoryItems(df, optional_categories[j])[1].overall_score)
             /\ (optional_categories[j] = "outerwear" => warranted)
          THEN <<Entry(optional_categories[j], CategoryItems(df, optional_categories[j]))>>
          ELSE <<>>)
         \o OptionalEntries(df, optional_categories, warranted, j + 1)

\* The selection: the one-piece if it is used, then the required and the
\* optional categories.
SelectEntries(df, use_one_piece, warranted) ==
    (IF use_one_piece THEN <<Entry("one_piece", CategoryItems(df, "one_piece"))>> ELSE <<>>)
    \o RequiredEntries(df, RequiredCategories(use_one_piece), 1)
    \o OptionalEntries(df, <<"outerwear", "accessory">>, warranted, 1)

\* outfit, in insertion order.
OutfitOf(entries) == [j \in 1..Len(entries) |-> <<entries[j].key, entries[j].value>>]

\* selected_items_features: the slots filled with a row, and the row's position.
SelectedOf(chosen) == [j \in 1..Len(chosen) |-> <<chosen[j].key, chosen[j].row>>]

\* `category in outfit` and outfit[category] on the dict.
HasKey(dict, key) == \E j \in 1..Len(dict) : dict[j][1] = key

Get(dict, key) == dict[CHOOSE j \in 1..Len(dict) : dict[j][1] = key][2]

UpperChar(c) ==
    IF \E i \in 1..Len(Lowers) : SubSeq(Lowers, i, i) = c
    THEN LET i == CHOOSE k \in 1..Len(Lowers) : SubSeq(Lowers, k, k) = c
         IN  SubSeq(Uppers, i, i)
    ELSE c

\* The bullet of the source is U+2022; module strings are ASCII.
Bullet == "*"

\* The order of the output lines.
categories_order == <<"one_piece", "top", "bottom", "outerwear", "footwear", "accessory">>

\* category_name of format_outfit_suggestion.
CategoryName(category) ==
    IF category = "one_piece" THEN "Dress/Jumpsuit"
    ELSE UpperChar(SubSeq(category, 1, 1)) \o SubSeq(category, 2, Len(category))

\* format_outfit_suggestion going through the dict in its own order.
FormatOutfitSuggestionInDictOrder(dict) ==
    JoinWith(<<"Suggested Outfit:">>
             \o [j \in 1..Len(dict) |->
                    Bullet \o " " \o CategoryName(dict[j][1]) \o ": " \o dict[j][2]],
             "\n")

\* format_outfit_suggestion: the header, then one line per category present.
FormatOutfitSuggestion(dict) ==
    LET category_name(category) == CategoryName(category)
        RECURSIVE Lines(_)
        Lines(j) ==
            IF j > Len(categories_order) THEN <<>>
            ELSE (IF HasKey(dict, categories_order[j])
                  THEN <<Bullet \o " " \o category_name(categories_order[j]) \o ": "
                         \o Get(dict, categories_order[j])>>
                  ELSE <<>>) \o Lines(j + 1)
    IN  JoinWith(<<"Suggested Outfit:">> \o Lines(1), "\n")

(* parse_outfit_suggestion of app/services.py *)

\* The characters str.strip() removes that can occur here.
IsSpace(c) == c = " " \/ c = "\n" \/ c = "\t"

\* s.strip()
Strip(s) ==
    LET inked == {i \in 1..Len(s) : ~IsSpace(SubSeq(s, i, i))}
    IN  IF inked = {} THEN ""
        ELSE SubSeq(s, CHOOSE i \in inked : \A k \in inked : i <= k,
                       CHOOSE i \in inked : \A k \in inked : k <= i)

\* The positions of character c in s.
Positions(s, c) == {i \in 1..Len(s) : SubSeq(s, i, i) = c}

\* s.split(c), from position from on.
RECURSIVE SplitFrom(_, _, _)
SplitFrom(s, c, from) ==
    LET later == {i \in Positions(s, c) : i >= from}
    IN  IF later = {} THEN <<SubSeq(s, from, Len(s))>>
        ELSE LET cut == CHOOSE i \in later : \A k \in later : i <= k
             IN  <<SubSeq(s, from, cut - 1)>> \o SplitFrom(s, c, cut + 1)

Split(s, c) == SplitFrom(s, c, 1)

\* outfit_dict[category] = item on a dict kept as <<key, value>> pairs in
\* insertion order.
SetItem(dict, key, value) ==
    IF HasKey(dict, key)
    THEN [j \in 1..Len(dict) |-> IF dict[j][1] = key THEN <<key, value>> ELSE dict[j]]
    ELSE Append(dict, <<key, value>>)

\* The loop over the lines: a line with a colon is split at the first one.
RECURSIVE ParseLines(_, _, _)
ParseLines(lines, outfit_dict, j) ==
    IF j > Len(lines) THEN outfit_dict
    ELSE IF Positions(lines[j], ":") = {} THEN ParseLines(lines, outfit_dict, j + 1)
    ELSE LET parts == SplitFrom(lines[j], ":", 1)
             colon == Len(parts[1]) + 1
         IN  ParseLines(lines,
                        SetItem(outfit_dict, Lower(Strip(parts[1])),
                                Strip(SubSeq(lines[j], colon + 1, Len(lines[j])))),
                        j + 1)

ParseOutfitSuggestion(outfit_text) == ParseLines(Split(Strip(outfit_text), "\n"), <<>>, 1)

---------------------------------------------------------------------------
(* The engine as a state machine: calls of suggest_outfit and of           *)
(* format_outfit_suggestion on an instance                                 *)

\* Two instances, each built by __init__: the module-level one of
\* app/services.py and another one.
Instances == {"shared", "fresh"}

\* The longest wardrobe list explored.
MaxItems == 3

\* The wardrobe lists: up to n distinct descriptions, in every order.
Wardrobes(items, n) ==
    UNION {{w \in [1..k -> items] : \A a, b \in 1..k : a # b => w[a] # w[b]} : k \in 1..n}

Occasions == {"Business meeting", "work", "casual"}

\* Weather observations <<description, temperature>>: both sides of 20 degrees,
\* and rain and wind above it.
Observations ==
    {<<"clear sky", 20>>, <<"clear sky", 19>>, <<"light rain", 21>>, <<"windy", 22>>}

EngineInit ==
    /\ suggester = [i \in Instances |-> NewSuggester]
    /\ extracted = [d \in Catalogue |-> ExtractFeatures(d)]
    /\ request = NoCall
    /\ clothing_df = <<>>
    /\ weather_profile = <<>>
    /\ outfit = <<>>
    /\ selected_items_features = <<>>
    /\ formatted = NoCall
    /\ parsed = NoCall
    /\ memo = NoCall
    /\ fmPrev = NoCall
    /\ fmLast = NoCall
    /\ wxCall = NoCall
    /\ fxCall = NoCall
    /\ ocCall = NoCall
    /\ NoThreads
    /\ NoRegistrations
    /\ AppIdle

SameArguments(a, b) ==
    /\ a.clothing_descriptions = b.clothing_descriptions
    /\ a.occasion = b.occasion
    /\ a.weather_description = b.weather_description
    /\ a.temperature = b.temperature

\* One call of suggest_outfit on instance i, step by step: the weather
\* profile, the occasion scores, the scored and sorted frame, the selection.
\* It assigns no attribute of self.  memo notes that a call with other
\* arguments came after the remembered one.
SuggestOutfitCall(instances, wardrobes, occasions, observations) ==
    /\ \E i \in instances, w \in wardrobes, o \in occasions, ob \in observations :
        \E weather \in {CategorizeWeather(suggester[i].weather_categories, ob[1], ob[2])},
           occasion_features \in {CalculateOccasionScore(suggester[i].occasion_formality, o)} :
          \E df \in {SortValues(ScoredRows(w, weather, occasion_features, 1))} :
            \E entries \in {SelectEntries(df, UseOnePiece(CategoryItems(df, "one_piece")),
                                          OuterwearWarranted(ob[2], weather))} :
              /\ request' = [called |-> TRUE, self |-> i, clothing_descriptions |-> w,
                             occasion |-> o, weather_description |-> ob[1],
                             temperature |-> ob[2]]
              /\ clothing_df' = df
              /\ weather_profile' = weather
              /\ outfit' = OutfitOf(entries)
              /\ selected_items_features' = SelectedOf(SelectSeq(entries, LAMBDA e : e.row # 0))
    /\ formatted' = NoCall
    /\ parsed' = NoCall
    /\ memo' = IF memo.called /\ ~SameArguments(memo, request')
               THEN [memo EXCEPT !.other = TRUE] ELSE memo
    /\ UNCHANGED <<suggester, extracted>>
    /\ UNCHANGED pureVars
    /\ UNCHANGED serviceVars
    /\ UNCHANGED appVars

\* format_outfit_suggestion on the dict the last call returned.  For each keep
\* in keeps, the first text produced may be remembered with its arguments.
FormatOutfitCall(keeps) ==
    /\ request.called
    /\ ~formatted.called
    /\ formatted' = [called |-> TRUE, text |-> FormatOutfitSuggestion(outfit)]
    /\ \E keep \in keeps :
          memo' = IF keep /\ ~memo.called
                  THEN [called |-> TRUE, self |-> request.self,
                        clothing_descriptions |-> request.clothing_descriptions,
                        occasion |-> request.occasion,
                        weather_description |-> request.weather_description,
                        temperature |-> request.temperature,
                        text |-> formatted'.text, other |-> FALSE]
                  ELSE memo
    /\ UNCHANGED <<suggester, extracted, request, clothing_df, weather_profile,
                   outfit, selected_items_features, parsed>>
    /\ UNCHANGED pureVars
    /\ UNCHANGED serviceVars
    /\ UNCHANGED appVars

\* generate_outfit_avatar: parse_outfit_suggestion on the formatted text.
ParseOutfitSuggestionCall ==
    /\ formatted.called
    /\ ~parsed.called
    /\ parsed' = [called |-> TRUE, outfit_dict |-> ParseOutfitSuggestion(formatted.text)]
    /\ UNCHANGED <<suggester, extracted, request, clothing_df, weather_profile,
                   outfit, selected_items_features, formatted, memo>>
    /\ UNCHANGED pureVars
    /\ UNCHANGED serviceVars
    /\ UNCHANGED appVars

\* One request per behaviour, on the shared instance: the call, then its formatting.
FirstCall ==
    /\ ~request.called
    /\ SuggestOutfitCall({"shared"}, Wardrobes(Catalogue, MaxItems), Occasions, Observations)

FormatOnly == FormatOutfitCall({FALSE})

Next == FirstCall \/ FormatOnly \/ ParseOutfitSuggestionCall

Spec == EngineInit /\ [][Next]_vars

---------------------------------------------------------------------------
(* Properties of one call of suggest_outfit                                *)

\* The rows of the call's frame in one category.
RowsOf(category) ==
    {clothing_df[j] : j \in {k \in 1..Len(clothing_df) : clothing_df[k].category = category}}

\* The row of the frame that came at position i of the input list.
RowAt(i) == CHOOSE r \in {clothing_df[j] : j \in 1..Len(clothing_df)} : r.index = i

\* A row no row of its category outscores.
IsBest(row) == \A r \in RowsOf(row.category) : RLeq(r.overall_score, row.overall_score)

\* Some row of the category scores strictly more than the threshold, which,
\* the category being non-empty, is to say that its highest score does.
BestExceeds(category, threshold) ==
    \E r \in RowsOf(category) : RLess(threshold, r.overall_score)

\* The slot holds the description of a best row of its category.
HoldsBest(category) ==
    /\ HasKey(outfit, category)
    /\ \E r \in RowsOf(category) : IsBest(r) /\ Get(outfit, category) = r.description

\* C1: 'footwear' is always a key, and either 'one_piece' is a key and neither
\* 'top' nor 'bottom' is, or 'one_piece' is not a key and both 'top' and
\* 'bottom' are.
OutfitKeyForms ==
    request.called =>
        /\ HasKey(outfit, "footwear")
        /\ \/ /\ HasKey(outfit, "one_piece")
              /\ ~HasKey(outfit, "top")
              /\ ~HasKey(outfit, "bottom")
           \/ /\ ~HasKey(outfit, "one_piece")
              /\ HasKey(outfit, "top")
              /\ HasKey(outfit, "bottom")

\* A one-piece was chosen from a wardrobe that also has a top and a bottom.
OutfitKeyFormsWitness ==
    /\ request.called
    /\ HasKey(outfit, "one_piece")
    /\ RowsOf("top") # {}
    /\ RowsOf("bottom") # {}
    /\ HasKey(outfit, "footwear")

\* C2: 'one_piece' is in the outfit exactly when the wardrobe has a one-piece
\* and the highest one-piece score is strictly above 0.7; its value is then
\* that top-scoring one-piece, and 'top' and 'bottom' are omitted.
OnePieceOverride ==
    request.called =>
        /\ HasKey(outfit, "one_piece") <=> BestExceeds("one_piece", Rat(7, 10))
        /\ HasKey(outfit, "one_piece") =>
              /\ HoldsBest("one_piece")
              /\ ~HasKey(outfit, "top")
              /\ ~HasKey(outfit, "bottom")

\* The one-piece, listed after a top and a bottom, scores above 0.7 and
\* takes their place.
OnePieceOverrideWitness ==
    /\ request.called
    /\ Len(request.clothing_descriptions) = 3
    /\ RowAt(3).category = "one_piece"
    /\ RLess(Rat(7, 10), RowAt(3).overall_score)
    /\ RowsOf("top") # {}
    /\ RowsOf("bottom") # {}
    /\ Get(outfit, "one_piece") = RowAt(3).description

\* The categories still required once the one-piece decision is taken.
StillRequired ==
    IF HasKey(outfit, "one_piece") THEN {"footwear"} ELSE {"top", "bottom", "footwear"}

\* C3: a still-required category with no item gets the slot
\* 'No suitable <category> found', and the other required slots are filled
\* with their best item.
PlaceholderForEmptyCategory ==
    request.called =>
        \A c \in StillRequired :
            IF RowsOf(c) = {}
            THEN HasKey(outfit, c) /\ Get(outfit, c) = "No suitable " \o c \o " found"
            ELSE HoldsBest(c)

\* No footwear and no bottom in the wardrobe, but a top.
PlaceholderWitness ==
    /\ request.called
    /\ RowsOf("footwear") = {}
    /\ RowsOf("top") # {}
    /\ Get(outfit, "footwear") = "No suitable footwear found"
    /\ Get(outfit, "bottom") = "No suitable bottom found"
    /\ \E r \in RowsOf("top") : Get(outfit, "top") = r.description

\* C4: every slot filled with a wardrobe item holds an item of the slot's
\* category with the maximum overall_score of that category, and among the
\* items tied on that maximum the one that comes first in the input list.
BestItemFirstOnTies ==
    request.called =>
        /\ \A j \in 1..Len(selected_items_features) :
              LET category == selected_items_features[j][1]
                  chosen == RowAt(selected_items_features[j][2])
              IN  /\ chosen.category = category
                  /\ Get(outfit, category) = request.clothing_descriptions[chosen.index]
                  /\ IsBest(chosen)
                  /\ \A r \in RowsOf(category) :
                        r.overall_score = chosen.overall_score => chosen.index <= r.index
        /\ \A j \in 1..Len(outfit) :
              \/ \E k \in 1..Len(selected_items_features) :
                    selected_items_features[k][1] = outfit[j][1]
              \/ /\ outfit[j][2] = "No suitable " \o outfit[j][1] \o " found"
                 /\ RowsOf(outfit[j][1]) = {}

\* Three tops: two tied on the maximum with the one listed first chosen, and
\* a third that scores less though it is listed before both.
BestItemWitness ==
    /\ request.called
    /\ Len(request.clothing_descriptions) = 3
    /\ \E a, b, c \in RowsOf("top") :
          /\ c.index < a.index /\ a.index < b.index
          /\ a.overall_score = b.overall_score
          /\ RLess(c.overall_score, a.overall_score)
          /\ Get(outfit, "top") = a.description
          /\ a.description # b.description

\* C5: 'accessory' is in the outfit exactly when the best accessory scores
\* above 0.6; 'outerwear' exactly when the best outerwear scores above 0.6 and
\* the temperature is below 20 or the wet or the windy weight is above 0.4.
OptionalSlots ==
    request.called =>
        /\ HasKey(outfit, "accessory") <=> BestExceeds("accessory", Rat(6, 10))
        /\ HasKey(outfit, "outerwear") <=>
              /\ BestExceeds("outerwear", Rat(6, 10))
              /\ \/ request.temperature < 20
                 \/ RLess(Rat(4, 10), weather_profile.wet)
                 \/ RLess(Rat(4, 10), weather_profile.windy)
        /\ HasKey(outfit, "accessory") => HoldsBest("accessory")
        /\ HasKey(outfit, "outerwear") => HoldsBest("outerwear")

\* Outerwear scoring above 0.6 left out at 20 degrees in dry, calm weather,
\* beside an accessory that was taken.
OptionalSlotsWitness ==
    /\ request.called
    /\ request.temperature >= 20
    /\ RLeq(weather_profile.wet, Rat(4, 10))
    /\ RLeq(weather_profile.windy, Rat(4, 10))
    /\ BestExceeds("outerwear", Rat(6, 10))
    /\ ~HasKey(outfit, "outerwear")
    /\ HasKey(outfit, "accessory")

\* C27: every value of the outfit is the placeholder of its key or the
\* description of a wardrobe item whose extracted category is the key, and no
\* position of the input list fills two slots.
SlotsHoldItemsOfTheirCategory ==
    request.called =>
        /\ \A j \in 1..Len(outfit) :
              \/ outfit[j][2] = "No suitable " \o outfit[j][1] \o " found"
              \/ \E k \in 1..Len(selected_items_features) :
                    LET i == selected_items_features[k][2]
                    IN  /\ selected_items_features[k][1] = outfit[j][1]
                        /\ i \in 1..Len(request.clothing_descriptions)
                        /\ request.clothing_descriptions[i] = outfit[j][2]
                        /\ extracted[request.clothing_descriptions[i]].category = outfit[j][1]
        /\ \A j, k \in 1..Len(selected_items_features) :
              j # k => selected_items_features[j][2] # selected_items_features[k][2]
        /\ \A j, k \in 1..Len(outfit) : j # k => outfit[j][1] # outfit[k][1]

\* Two slots filled from two positions of the list and a third left to the
\* placeholder.
SlotsHoldItemsWitness ==
    /\ request.called
    /\ Len(selected_items_features) >= 2
    /\ \E j \in 1..Len(outfit) : outfit[j][2] = "No suitable " \o outfit[j][1] \o " found"
    /\ \E j, k \in 1..Len(selected_items_features) :
          /\ j # k
          /\ selected_items_features[j][2] # selected_items_features[k][2]

\* The label each category is rendered under.
Labels ==
    [one_piece |-> "Dress/Jumpsuit", top |-> "Top", bottom |-> "Bottom",
     outerwear |-> "Outerwear", footwear |-> "Footwear", accessory |-> "Accessory"]

\* The categories of the outfit, in the fixed output order.
Present == SelectSeq(categories_order, LAMBDA c : HasKey(outfit, c))

KeyIndex(dict, key) == CHOOSE j \in 1..Len(dict) : dict[j][1] = key

\* C15: after the header, format_outfit_suggestion renders one line per
\* category of the outfit and no other, in the order one_piece, top, bottom,
\* outerwear, footwear, accessory whatever the dict's order, each under its
\* label, and the text has no blank line and no newline at its end.
FormattedLineOrder ==
    formatted.called =>
        LET lines == Split(formatted.text, "\n")
        IN  /\ Len(Present) = Len(outfit)
            /\ Len(lines) = 1 + Len(Present)
            /\ lines[1] = "Suggested Outfit:"
            /\ \A j \in 1..Len(Present) :
                  lines[j + 1] = Bullet \o " " \o Labels[Present[j]] \o ": "
                                 \o Get(outfit, Present[j])
            /\ \A j \in 1..Len(lines) : lines[j] # ""

\* An outfit whose dict holds footwear before outerwear, rendered with the
\* Outerwear line before the Footwear line.
FormattedLineOrderWitness ==
    /\ formatted.called
    /\ HasKey(outfit, "outerwear")
    /\ KeyIndex(outfit, "footwear") < KeyIndex(outfit, "outerwear")
    /\ LET lines == Split(formatted.text, "\n")
       IN  \E j \in 2..(Len(lines) - 1) :
              /\ SubSeq(lines[j], 1, 11) = Bullet \o " Outerwear"
              /\ SubSeq(lines[j + 1], 1, 10) = Bullet \o " Footwear"

\* C16: parsing the formatted text line by line yields one entry per
\* category of the outfit, keyed by the category's label (lower-cased by the
\* parser, with or without the bullet) and holding the chosen description,
\* and no other entry.
ReparseYieldsOutfit ==
    parsed.called =>
        /\ Len(parsed.outfit_dict) = Len(outfit)
        /\ \A j \in 1..Len(outfit) :
              \E k \in 1..Len(parsed.outfit_dict) :
                 /\ parsed.outfit_dict[k][2] = outfit[j][2]
                 /\ parsed.outfit_dict[k][1] \in
                        {Lower(Labels[outfit[j][1]]),
                         Lower(Bullet \o " " \o Labels[outfit[j][1]])}

InUnitInterval(x) == RLeq(RZero, x) /\ RLeq(x, ROne)

\* C19: in every row of the frame weather_score and formality_score are in
\* [0, 1], and the overall_score the rows are sorted and selected by is
\* weather_score * 0.4 + formality_score * 0.6, so in [0, 1] as well.
ScoresInUnitInterval ==
    \A j \in 1..Len(clothing_df) :
        /\ InUnitInterval(clothing_df[j].weather_score)
        /\ InUnitInterval(clothing_df[j].formality_score)
        /\ clothing_df[j].overall_score =
              RAdd(RMul(clothing_df[j].weather_score, Rat(4, 10)),
                   RMul(clothing_df[j].formality_score, Rat(6, 10)))
        /\ InUnitInterval(clothing_df[j].overall_score)

\* A frame with a row whose formality_score is 1 (the +0.2 bonus capped) and
\* whose weather_score is strictly inside, and a row scoring lower on both.
ScoresInUnitIntervalWitness ==
    /\ request.called
    /\ \E j, k \in 1..Len(clothing_df) :
          /\ clothing_df[j].formality_score = ROne
          /\ RLess(RZero, clothing_df[j].weather_score)
          /\ RLess(clothing_df[j].weather_score, ROne)
          /\ RLess(clothing_df[j].overall_score, ROne)
          /\ RLess(clothing_df[k].formality_score, clothing_df[j].formality_score)
          /\ RLess(clothing_df[k].weather_score, clothing_df[j].weather_score)

---------------------------------------------------------------------------
(* The coat alone in the cold                                              *)

ColdCoat == "heavy wool winter coat"

\* Every key of the occasion table, a text with two keys and one with none.
ColdOccasions ==
    {InitialOccasionFormality[j][1] : j \in 1..Len(InitialOccasionFormality)}
        \cup {"Business Casual Friday", "picnic in the park"}

\* Descriptions with no rain or wind word; some have a mild keyword.
CalmDescriptions ==
    {"", "clear sky", "overcast clouds", "freezing cold", "mild", "partly cloudy"}

ColdCoatCall ==
    /\ ~request.called
    /\ SuggestOutfitCall({"shared"}, {<<ColdCoat>>}, ColdOccasions,
                         {<<d, 5>> : d \in CalmDescriptions})

ColdCoatNext == ColdCoatCall \/ FormatOnly

SpecColdCoat == EngineInit /\ [][ColdCoatNext]_vars

RequiredSlotsArePlaceholders ==
    /\ Get(outfit, "top") = "No suitable top found"
    /\ Get(outfit, "bottom") = "No suitable bottom found"
    /\ Get(outfit, "footwear") = "No suitable footwear found"
    /\ ~HasKey(outfit, "one_piece")

\* C6 as stated: the coat is the outerwear for every occasion, beside the
\* three placeholders.
ColdCoatForEveryOccasion ==
    request.called =>
        /\ HasKey(outfit, "outerwear")
        /\ Get(outfit, "outerwear") = ColdCoat
        /\ RequiredSlotsArePlaceholders

\* The formality the occasion table gives the call's occasion, in tenths.
RequestFormality == OccasionFormality(InitialOccasionFormality, Lower(request.occasion), 1)

\* C6: top, bottom and footwear hold placeholders for every occasion; when the
\* description has no mild keyword either, the coat is the outerwear exactly
\* for the occasions of formality 4.0 or more (the default 5.0 among them) and
\* outerwear is omitted for those of formality 1.0 and 2.0.
ColdCoatByFormality ==
    request.called =>
        /\ RequiredSlotsArePlaceholders
        /\ HasKey(outfit, "outerwear") => Get(outfit, "outerwear") = ColdCoat
        /\ ~ContainsAny(Lower(request.weather_description), InitialWeatherCategories.mild)
              => (HasKey(outfit, "outerwear") <=> RequestFormality >= 40)

\* The coat worn to the most formal occasion of the table.
ColdCoatWitness ==
    /\ request.called
    /\ request.clothing_descriptions = <<ColdCoat>>
    /\ request.temperature = 5
    /\ request.occasion = "black tie"
    /\ request.weather_description = "clear sky"
    /\ HasKey(outfit, "outerwear")
    /\ Get(outfit, "outerwear") = ColdCoat
    /\ RequiredSlotsArePlaceholders

---------------------------------------------------------------------------
(* Repeated calls on two instances                                         *)

RepeatWardrobes ==
    {<<"floral maxi dress", "red silk tie", "brown leather loafers">>,
     <<"blue shirt", "navy wool dress pants", "heavy wool winter coat">>}

RepeatOccasions == {"Business meeting", "casual"}

RepeatObservations == {<<"clear sky", 20>>, <<"light rain", 21>>}

\* Any call after any other, on either instance.
RepeatCall ==
    SuggestOutfitCall(Instances, RepeatWardrobes, RepeatOccasions, RepeatObservations)

FormatAndRemember == FormatOutfitCall(BOOLEAN)

RepeatNext == RepeatCall \/ FormatAndRemember

SpecDeterminism == EngineInit /\ [][RepeatNext]_vars

---------------------------------------------------------------------------
(* Concurrent requests on the shared instance of app/services.py           *)

\* The threads serving requests; each calls suggest_outfit and then
\* format_outfit_suggestion on services.outfit_suggester.
Threads == {"t1", "t2"}

IdleThread == [pc |-> "idle", overlapped |-> FALSE]

ConcurrentInit ==
    /\ suggester = [i \in Instances |-> NewSuggester]
    /\ extracted = [d \in Catalogue |-> ExtractFeatures(d)]
    /\ request = NoCall
    /\ clothing_df = <<>>
    /\ weather_profile = <<>>
    /\ outfit = <<>>
    /\ selected_items_features = <<>>
    /\ formatted = NoCall
    /\ parsed = NoCall
    /\ memo = NoCall
    /\ fmPrev = NoCall
    /\ fmLast = NoCall
    /\ wxCall = NoCall
    /\ fxCall = NoCall
    /\ ocCall = NoCall
    /\ calls = [t \in Threads |-> IdleThread]
    /\ NoRegistrations
    /\ AppIdle

\* Another thread is inside its request while t takes a step.
Overlaps(t) == \E u \in Threads \ {t} : calls[u].pc \notin {"idle", "done"}

\* The attributes of self with _calculate_occasion_score remembering the
\* occasion it was asked about as a keyword of its table.
AttributesAfterCallLearned(self, occasion) ==
    [self EXCEPT !.occasion_formality = <<<<Lower(occasion), 5>>>> \o @]

\* The attributes of self after a call of suggest_outfit: the call and the
\* helpers it uses assign none of them.
AttributesAfterCall(self, occasion) == self

\* The thread enters suggest_outfit with the caller's list and arguments.
EnterSuggestOutfit(t) ==
    /\ calls[t].pc = "idle"
    /\ \E w \in RepeatWardrobes, o \in RepeatOccasions, ob \in RepeatObservations :
          calls' = [calls EXCEPT ![t] =
                      [pc |-> "weather", overlapped |-> Overlaps(t),
                       given |-> w, clothing_descriptions |-> w, occasion |-> o,
                       weather_description |-> ob[1], temperature |-> ob[2]]]
    /\ UNCHANGED <<suggester, extracted, request, clothing_df, weather_profile, outfit,
                   selected_items_features, formatted, parsed, memo, users, registrations>>
    /\ UNCHANGED pureVars

\* Line 1120: _categorize_weather reads self.weather_categories.
ThreadCategorizeWeather(t) ==
    /\ calls[t].pc = "weather"
    /\ \E weather \in {CategorizeWeather(suggester["shared"].weather_categories,
                                         calls[t].weather_description,
                                         calls[t].temperature)} :
          calls' = [calls EXCEPT ![t] =
                      [weather_categories |-> weather] @@
                      [@ EXCEPT !.pc = "occasion",
                                !.overlapped = @ \/ Overlaps(t)]]
    /\ UNCHANGED <<suggester, extracted, request, clothing_df, weather_profile, outfit,
                   selected_items_features, formatted, parsed, memo, users, registrations>>
    /\ UNCHANGED pureVars

\* Line 1123: _calculate_occasion_score reads self.occasion_formality.
ThreadOccasionScore(t) ==
    /\ calls[t].pc = "occasion"
    /\ \E occasion_features \in {CalculateOccasionScore(suggester["shared"].occasion_formality,
                                                        calls[t].occasion)} :
          calls' = [calls EXCEPT ![t] =
                      [occasion_features |-> occasion_features] @@
                      [@ EXCEPT !.pc = "select",
                                !.overlapped = @ \/ Overlaps(t)]]
    /\ suggester' = [suggester EXCEPT !["shared"] = AttributesAfterCall(@, calls[t].occasion)]
    /\ UNCHANGED <<extracted, request, clothing_df, weather_profile, outfit,
                   selected_items_features, formatted, parsed, memo, users, registrations>>
    /\ UNCHANGED pureVars

\* Lines 1117 and 1129-1182: the frame of the thread's own list, scored,
\* sorted and selected from; all of it in local variables.
ThreadSelect(t) ==
    /\ calls[t].pc = "select"
    /\ \E df \in {SortValues(ScoredRows(calls[t].clothing_descriptions,
                                        calls[t].weather_categories,
                                        calls[t].occasion_features, 1))} :
        \E entries \in {SelectEntries(df, UseOnePiece(CategoryItems(df, "one_piece")),
                                      OuterwearWarranted(calls[t].temperature,
                                                         calls[t].weather_categories))} :
          calls' = [calls EXCEPT ![t] =
                      [outfit |-> OutfitOf(entries)] @@
                      [@ EXCEPT !.pc = "format",
                                !.overlapped = @ \/ Overlaps(t)]]
    /\ UNCHANGED <<suggester, extracted, request, clothing_df, weather_profile, outfit,
                   selected_items_features, formatted, parsed, memo, users, registrations>>
    /\ UNCHANGED pureVars

\* services.py line 118: format_outfit_suggestion on the dict returned.
ThreadFormat(t) ==
    /\ calls[t].pc = "format"
    /\ calls' = [calls EXCEPT ![t] =
                    [text |-> FormatOutfitSuggestion(calls[t].outfit)] @@
                    [@ EXCEPT !.pc = "done",
                              !.overlapped = @ \/ Overlaps(t)]]
    /\ UNCHANGED <<suggester, extracted, request, clothing_df, weather_profile, outfit,
                   selected_items_features, formatted, parsed, memo, users, registrations>>
    /\ UNCHANGED pureVars

ConcurrentNext ==
    /\ \E t \in Threads :
          \/ EnterSuggestOutfit(t)
          \/ ThreadCategorizeWeather(t)
          \/ ThreadOccasionScore(t)
          \/ ThreadSelect(t)
          \/ ThreadFormat(t)
    /\ UNCHANGED appVars

SpecConcurrent == ConcurrentInit /\ [][ConcurrentNext]_vars

\* The outfit of a call with the arguments of c, run alone on a new instance.
AloneFrom(df, weather, temperature) ==
    OutfitOf(SelectEntries(df, UseOnePiece(CategoryItems(df, "one_piece")),
                           OuterwearWarranted(temperature, weather)))

AloneWith(c, weather) ==
    AloneFrom(SortValues(ScoredRows(c.given, weather,
                                    CalculateOccasionScore(NewSuggester.occasion_formality,
                                                           c.occasion), 1)),
              weather, c.temperature)

RunAlone(c) ==
    AloneWith(c, CategorizeWeather(NewSuggester.weather_categories,
                                   c.weather_description, c.temperature))

---------------------------------------------------------------------------
(* register_user of utils/user_utils.py on the Users table                 *)

\* The register_user calls, each on a connection of its own, and the
\* usernames they ask for.
Registrations == {"r1", "r2", "r3"}
Usernames == {"alice", "bob"}

RegisterInit ==
    /\ users = {}
    /\ registrations = [r \in Registrations |-> [pc |-> "idle"]]
    /\ NoThreads
    /\ AppIdle
    /\ fmPrev = NoCall
    /\ fmLast = NoCall
    /\ wxCall = NoCall
    /\ fxCall = NoCall
    /\ ocCall = NoCall
    /\ EngineIdle

\* The rows of the Users table with a username.
RowsNamed(username) == {row \in users : row.username = username}

\* Another call's INSERT of the username is not yet committed: the unique
\* index makes this call's INSERT wait for it.
InsertPending(r) ==
    \E q \in Registrations \ {r} :
        /\ registrations[q].pc = "commit"
        /\ registrations[q].username = registrations[r].username

\* Lines 20-21: the call opens its connection.
RegisterUser(r) ==
    /\ registrations[r].pc = "idle"
    /\ \E username \in Usernames :
          registrations' = [registrations EXCEPT ![r] =
                               [pc |-> "select", username |-> username,
                                committed |-> FALSE]]
    /\ UNCHANGED users

\* Lines 24-28: the existence check on the committed rows.
SelectUser(r) ==
    /\ registrations[r].pc = "select"
    /\ registrations' = [registrations EXCEPT ![r] =
          IF RowsNamed(registrations[r].username) # {}
          THEN [status_code |-> 400, detail |-> "Username already registered"] @@
               [@ EXCEPT !.pc = "done"]
          ELSE [@ EXCEPT !.pc = "insert"]]
    /\ UNCHANGED users

\* Lines 35-39 and 44-47: the INSERT; the UNIQUE constraint of
\* create_users_table makes it raise when the username has a row by now, and
\* the handler turns any exception into HTTP 500.
InsertUser(r) ==
    /\ registrations[r].pc = "insert"
    /\ ~InsertPending(r)
    /\ registrations' = [registrations EXCEPT ![r] =
          IF RowsNamed(registrations[r].username) # {}
          THEN [status_code |-> 500, detail |-> "Database error"] @@
               [@ EXCEPT !.pc = "done"]
          ELSE [@ EXCEPT !.pc = "commit"]]
    /\ UNCHANGED users

\* Lines 40-43: conn.commit() and the 200 answer.
CommitUser(r) ==
    /\ registrations[r].pc = "commit"
    /\ users' = users \cup {[id |-> r, username |-> registrations[r].username]}
    /\ registrations' = [registrations EXCEPT ![r] =
          [status_code |-> 200, detail |-> "User registered successfully"] @@
          [@ EXCEPT !.pc = "done", !.committed = TRUE]]

RegisterNext ==
    /\ \E r \in Registrations :
          \/ RegisterUser(r)
          \/ SelectUser(r)
          \/ InsertUser(r)
          \/ CommitUser(r)
    /\ UNCHANGED calls
    /\ UNCHANGED engineVars
    /\ UNCHANGED pureVars
    /\ UNCHANGED appVars

SpecRegister == RegisterInit /\ [][RegisterNext]_vars

\* The username of a finished call has a row that another call committed.
RegisteredByAnother(r) ==
    \E row \in RowsNamed(registrations[r].username) : row.id # r

\* C20: a register_user call for a username another call has registered,
\* before this call's check or between its check and its INSERT, ends with
\* HTTP 400 'Username already registered' and without a commit, and no two
\* rows of Users have the same username.
DuplicateUsernameRaises400 ==
    /\ \A r \in Registrations :
          (registrations[r].pc = "done" /\ RegisteredByAnother(r)) =>
              /\ registrations[r].status_code = 400
              /\ registrations[r].detail = "Username already registered"
              /\ ~registrations[r].committed
    /\ \A row, other \in users : row.username = other.username => row = other

\* What the code does keep: no commit by the call that lost, and one row per
\* username; the status is 400 or 500.
DuplicateUsernameRejected ==
    /\ \A r \in Registrations :
          (registrations[r].pc = "done" /\ RegisteredByAnother(r)) =>
              /\ registrations[r].status_code \in {400, 500}
              /\ ~registrations[r].committed
    /\ \A row, other \in users : row.username = other.username => row = other

---------------------------------------------------------------------------
(* The database connection of register_user, verify_user (utils/user_utils) *)
(* and add_clothing_item, get_all_clothing_descriptions                     *)
(* (utils/clothing_utils): what each call does to the connection it opened  *)

\* The database calls under way, and the functions they may be calls of.
DbCalls == {"d1", "d2"}
DbFunctions ==
    {"register_user", "verify_user", "add_clothing_item", "get_all_clothing_descriptions"}

ConnectionsInit ==
    /\ connections = [d \in DbCalls |-> [pc |-> "idle"]]
    /\ upload = NoCall
    /\ handler = NoCall
    /\ wardrobe = NoCall
    /\ NoThreads
    /\ NoRegistrations
    /\ fmPrev = NoCall
    /\ fmLast = NoCall
    /\ wxCall = NoCall
    /\ fxCall = NoCall
    /\ ocCall = NoCall
    /\ EngineIdle

\* The call ends: what it did to the connection, the statement that raised
\* ("" if none did), the status it answers with, and whether the exception
\* of the statement left the function as it was raised.
Finished(call, log, failed, status_code, propagated) ==
    [fn |-> call.fn, pc |-> "done", log |-> log, failed |-> failed,
     status_code |-> status_code, propagated |-> propagated]

\* conn = db_utils.get_db_connection(); cursor = conn.cursor()
GetDbConnection(d) ==
    /\ connections[d].pc = "idle"
    /\ \E fn \in DbFunctions :
          connections' = [connections EXCEPT ![d] =
                             [fn |-> fn, pc |-> "select", log |-> <<"connect">>]]

\* The first statement, a SELECT: it raises, or it finds a row, or none.
\* register_user, verify_user and add_clothing_item execute it outside any
\* try, so its exception leaves the function; get_all_clothing_descriptions
\* executes it inside try/except and goes on to conn.close().
ExecuteSelect(d) ==
    LET call == connections[d]
        log == call.log \o <<"execute">>
    IN  /\ call.pc = "select"
        /\ \E result \in {"raises", "row", "none"} :
              connections' = [connections EXCEPT ![d] =
                  CASE call.fn = "register_user" ->
                          IF result = "raises" THEN Finished(call, log, "select", 500, TRUE)
                          ELSE IF result = "row"
                               THEN Finished(call, log \o <<"close">>, "", 400, FALSE)
                               ELSE [call EXCEPT !.pc = "insert", !.log = log]
                    [] call.fn = "verify_user" ->
                          IF result = "raises" THEN Finished(call, log, "select", 500, TRUE)
                          ELSE Finished(call, log \o <<"close">>, "",
                                        IF result = "row" THEN 200 ELSE 401, FALSE)
                    [] call.fn = "add_clothing_item" ->
                          IF result = "raises" THEN Finished(call, log, "select", 500, TRUE)
                          ELSE IF result = "none"
                               THEN Finished(call, log \o <<"close">>, "", 404, FALSE)
                               ELSE [call EXCEPT !.pc = "insert", !.log = log]
                    [] OTHER ->
                          Finished(call, log \o <<"close">>,
                                   IF result = "raises" THEN "select" ELSE "", 200, FALSE)]

\* The handler `except Exception` of register_user (conn.close()) and of
\* add_clothing_item (conn.rollback(); conn.close()), then HTTP 500.
DatabaseError(call, log, failed) ==
    Finished(call,
             log \o (IF call.fn = "add_clothing_item" THEN <<"rollback", "close">>
                     ELSE <<"close">>),
             failed, 500, FALSE)

\* The INSERT, inside the try: it succeeds or it raises.
ExecuteInsert(d) ==
    LET call == connections[d]
        log == call.log \o <<"execute">>
    IN  /\ call.pc = "insert"
        /\ \E raises \in BOOLEAN :
              connections' = [connections EXCEPT ![d] =
                  IF raises THEN DatabaseError(call, log, "insert")
                  ELSE [call EXCEPT !.pc = "commit", !.log = log]]

\* conn.commit(), inside the try, then conn.close() and the answer.
Commit(d) ==
    LET call == connections[d]
        log == call.log \o <<"commit">>
    IN  /\ call.pc = "commit"
        /\ \E raises \in BOOLEAN :
              connections' = [connections EXCEPT ![d] =
                  IF raises THEN DatabaseError(call, log, "commit")
                  ELSE Finished(call, log \o <<"close">>, "", 200, FALSE)]

ConnectionsNext ==
    /\ \E d \in DbCalls :
          \/ GetDbConnection(d)
          \/ ExecuteSelect(d)
          \/ ExecuteInsert(d)
          \/ Commit(d)
    /\ UNCHANGED <<upload, handler, wardrobe>>
    /\ UNCHANGED serviceVars
    /\ UNCHANGED engineVars
    /\ UNCHANGED pureVars

SpecConnections == ConnectionsInit /\ [][ConnectionsNext]_vars

\* The positions of a log where a method of the connection was called.
CallsOf(log, method) == {j \in 1..Len(log) : log[j] = method}

\* C21: each of the four functions closes the connection it opened exactly
\* once on every path out of it, the failure of the first SELECT included, and
\* add_clothing_item rolls back exactly once, before closing, when its INSERT
\* fails.
ConnectionClosedOnce ==
    \A d \in DbCalls :
        connections[d].pc = "done" =>
            /\ Cardinality(CallsOf(connections[d].log, "close")) = 1
            /\ (connections[d].fn = "add_clothing_item" /\ connections[d].failed = "insert") =>
                  /\ Cardinality(CallsOf(connections[d].log, "rollback")) = 1
                  /\ \A r \in CallsOf(connections[d].log, "rollback"),
                        c \in CallsOf(connections[d].log, "close") : r < c

---------------------------------------------------------------------------
(* The /upload-clothing/image handler of app/main.py with convert_img and   *)
(* caption_image of app/services.py                                         *)

\* What the captioning model may answer for an image.
Captions == {"blue denim jacket", "red summer dress", "black leather boots"}

UploadInit ==
    /\ upload = [pc |-> "idle", stored |-> {}]
    /\ connections = <<>>
    /\ handler = NoCall
    /\ wardrobe = NoCall
    /\ NoThreads
    /\ NoRegistrations
    /\ fmPrev = NoCall
    /\ fmLast = NoCall
    /\ wxCall = NoCall
    /\ fxCall = NoCall
    /\ ocCall = NoCall
    /\ EngineIdle

\* A request arrives; the items stored by earlier requests stay.
UploadClothingImage ==
    /\ upload.pc \in {"idle", "done"}
    /\ upload' = [pc |-> "convert", stored |-> upload.stored, failure |-> "",
                  img_url |-> "", clothing_description |-> "", add_called |-> FALSE,
                  response |-> <<>>]

\* convert_img: the whole body is inside try; on an exception it returns the
\* text 'Unable to convert image: ...' in place of the data URL.
ConvertImg ==
    /\ upload.pc = "convert"
    /\ \E raises \in BOOLEAN :
          upload' = [upload EXCEPT
                        !.pc = "caption",
                        !.failure = IF raises THEN "convert_img" ELSE "",
                        !.img_url = IF raises THEN "Unable to convert image: cannot read"
                                    ELSE "data:image/jpeg;base64,"]

\* The answer of the handler, which ends the request.
Respond(response) == [upload EXCEPT !.pc = "done", !.response = response]

\* caption_image: the API call is inside try and on an exception the function
\* returns the text 'Unable to generate caption: ...'; the answer's content is
\* read outside the try, and with no content .strip() raises to the handler.
CaptionImage ==
    /\ upload.pc = "caption"
    /\ \/ upload' = [upload EXCEPT
                        !.pc = "add",
                        !.failure = IF @ = "" THEN "caption_image" ELSE @,
                        !.clothing_description = "Unable to generate caption: API error"]
       \/ /\ upload.failure = ""
          /\ \E caption \in Captions :
                upload' = [upload EXCEPT !.pc = "add", !.clothing_description = caption]
       \/ /\ upload.failure = ""
          /\ upload' = Respond([error |-> "Failed to generate description from image"])

\* The handler's call of add_clothing_item with the description: the item is
\* stored, or the call raises and the handler answers with its second error.
AddClothingItem ==
    /\ upload.pc = "add"
    /\ \E raises \in BOOLEAN :
          upload' = [Respond(IF raises THEN [error |-> "Failed to save clothing item"]
                             ELSE [message |-> "Clothing item uploaded successfully",
                                   description |-> upload.clothing_description])
                     EXCEPT !.add_called = TRUE,
                            !.stored = IF raises THEN @
                                       ELSE @ \cup {upload.clothing_description}]

UploadNext ==
    /\ \/ UploadClothingImage
       \/ ConvertImg
       \/ CaptionImage
       \/ AddClothingItem
    /\ UNCHANGED <<connections, handler, wardrobe>>
    /\ UNCHANGED serviceVars
    /\ UNCHANGED engineVars
    /\ UNCHANGED pureVars

SpecUpload == UploadInit /\ [][UploadNext]_vars

\* C29: a request in which convert_img or caption_image failed to produce the
\* description is answered with 'Failed to generate description from image'
\* without add_clothing_item being called, and no stored item has an error
\* message as its description.
FailedDescriptionNotStored ==
    /\ (upload.pc = "done" /\ upload.failure # "") =>
          /\ ~upload.add_called
          /\ "error" \in DOMAIN upload.response
          /\ upload.response.error = "Failed to generate description from image"
    /\ \A description \in upload.stored :
          /\ ~Contains(description, "Unable to generate caption")
          /\ ~Contains(description, "Unable to convert image")

---------------------------------------------------------------------------
(* The wardrobe on its way from the /suggest-outfit handler to the engine:  *)
(* joined to a text block in app/main.py, taken apart again by              *)
(* get_outfit_suggestion of app/services.py                                 *)

\* "\n".join(f"- {desc}" for desc in clothing_items)
AllDescriptions(clothing_items) ==
    JoinWith([j \in 1..Len(clothing_items) |-> "- " \o clothing_items[j]], "\n")

\* [desc.strip() for desc in clothing_descriptions.split('\n') if desc.strip()]
ClothingItems(clothing_descriptions) ==
    LET descs == Split(clothing_descriptions, "\n")
    IN  SelectSeq([j \in 1..Len(descs) |-> Strip(descs[j])], LAMBDA desc : desc # "")

\* [item[2:] if item.startswith('- ') else item for item in clothing_items]
CleanedItems(clothing_items) ==
    [j \in 1..Len(clothing_items) |->
        IF StartsWith(clothing_items[j], "- ")
        THEN SubSeq(clothing_items[j], 3, Len(clothing_items[j]))
        ELSE clothing_items[j]]

\* Descriptions a user may have stored: any non-empty text.
StoredDescriptions ==
    {"blue shirt", "- belt", "navy wool dress pants", " red dress", "wool coat\nwith hood"}

\* The longest stored list explored.
MaxStored == 3

\* The stored list is drawn here; the request is still to come.
WardrobeInit ==
    /\ \E n \in 1..MaxStored : \E clothing_items \in [1..n -> StoredDescriptions] :
          wardrobe = [called |-> FALSE, clothing_items |-> clothing_items]
    /\ connections = <<>>
    /\ upload = NoCall
    /\ handler = NoCall
    /\ NoThreads
    /\ NoRegistrations
    /\ fmPrev = NoCall
    /\ fmLast = NoCall
    /\ wxCall = NoCall
    /\ fxCall = NoCall
    /\ ocCall = NoCall
    /\ EngineIdle

\* The handler joins the list and get_outfit_suggestion takes the block apart;
\* cleaned_items is what suggest_outfit is called with.
PassWardrobe ==
    /\ ~wardrobe.called
    /\ \E all_descriptions \in {AllDescriptions(wardrobe.clothing_items)} :
          wardrobe' = [called |-> TRUE, clothing_items |-> wardrobe.clothing_items,
                       all_descriptions |-> all_descriptions,
                       cleaned_items |-> CleanedItems(ClothingItems(all_descriptions))]
    /\ UNCHANGED <<connections, upload, handler>>
    /\ UNCHANGED serviceVars
    /\ UNCHANGED engineVars
    /\ UNCHANGED pureVars

WardrobeNext == PassWardrobe

SpecWardrobe == WardrobeInit /\ [][WardrobeNext]_vars

\* C30: the list the engine is passed equals the stored list, item for item
\* and in the same order.
WardrobeRoundTrip ==
    wardrobe.called => wardrobe.cleaned_items = wardrobe.clothing_items

---------------------------------------------------------------------------
(* The /suggest-outfit handler of app/main.py: wardrobe fetch, weather      *)
(* fetch, outfit suggestion                                                 *)

\* What the wardrobe fetch may do: raise, or return a list, empty or not.  As
\* clothing_utils.get_all_clothing_descriptions stands (no parameter, called
\* with the user id) the call raises TypeError, which is the outcome "raises";
\* the lists are those of a fetch that accepts the user id.
StoredWardrobes ==
    {<<>>, <<"floral maxi dress">>,
     <<"blue shirt", "navy wool dress pants", "brown leather loafers">>}

\* fetch_weather's answers: weather_data.get("main", {}).get("temp") is None
\* when the service's answer has no temperature; <<>> stands for None and
\* <<t>> for the number t.
WeatherAnswers ==
    {[temperature |-> <<ob[2]>>, description |-> ob[1]] : ob \in Observations}
        \cup {[temperature |-> <<>>, description |-> "clear sky"]}

UserIds == {"u1", "u2"}

HandlerInit ==
    /\ handler = [pc |-> "idle"]
    /\ suggester = [i \in Instances |-> NewSuggester]
    /\ extracted = [d \in Catalogue |-> ExtractFeatures(d)]
    /\ request = NoCall
    /\ clothing_df = <<>>
    /\ weather_profile = <<>>
    /\ outfit = <<>>
    /\ selected_items_features = <<>>
    /\ formatted = NoCall
    /\ parsed = NoCall
    /\ memo = NoCall
    /\ connections = <<>>
    /\ upload = NoCall
    /\ wardrobe = NoCall
    /\ NoThreads
    /\ NoRegistrations
    /\ fmPrev = NoCall
    /\ fmLast = NoCall
    /\ wxCall = NoCall
    /\ fxCall = NoCall
    /\ ocCall = NoCall

\* `if not clothing_items` with the list's truth value taken as always true.
NoClothingItemsIgnored(clothing_items) == FALSE

\* if not clothing_items
NoClothingItems(clothing_items) == Len(clothing_items) = 0

\* The handler returns: the request is over.
Return(response) == [handler EXCEPT !.pc = "done", !.response = response]

\* A request arrives.  invoked lists the services called so far, raised the
\* stage whose call raised.
SuggestOutfitRequest ==
    /\ handler.pc = "idle"
    /\ \E userId \in UserIds, occasion \in Occasions :
          handler' = [pc |-> "wardrobe", userId |-> userId, occasion |-> occasion,
                      invoked |-> <<>>, raised |-> "", clothing_items |-> <<>>,
                      weather |-> <<>>, response |-> <<>>]

\* Lines 122-128: the wardrobe fetch, its except, and the empty-list answer.
FetchClothingItems ==
    /\ handler.pc = "wardrobe"
    /\ \/ handler' = [Return([error |-> "Failed to fetch clothing items"])
                      EXCEPT !.invoked = @ \o <<"wardrobe">>, !.raised = "wardrobe"]
       \/ \E clothing_items \in StoredWardrobes :
             handler' =
                 IF NoClothingItems(clothing_items)
                 THEN [Return([error |-> "No clothing items found. Upload clothing items first."])
                       EXCEPT !.invoked = @ \o <<"wardrobe">>]
                 ELSE [handler EXCEPT !.pc = "weather", !.invoked = @ \o <<"wardrobe">>,
                                      !.clothing_items = clothing_items]

\* Lines 133-136: fetch_weather raises (the service answers other than 200)
\* or returns temperature and description.
FetchWeather ==
    /\ handler.pc = "weather"
    /\ \/ handler' = [Return([error |-> "Failed to fetch weather"])
                      EXCEPT !.invoked = @ \o <<"weather">>, !.raised = "weather"]
       \/ \E weather \in WeatherAnswers :
             handler' = [handler EXCEPT !.pc = "engine", !.invoked = @ \o <<"weather">>,
                                        !.weather = weather]

\* Lines 138-147 with services.get_outfit_suggestion: the block is taken
\* apart, suggest_outfit is called on the shared instance and its outfit
\* formatted.  With no temperature `temperature > 30` of _categorize_weather
\* raises, and the handler's except answers.
GetOutfitSuggestion ==
    /\ handler.pc = "engine"
    /\ \/ /\ handler.weather.temperature = <<>>
          /\ handler' = [Return([error |-> "Failed to get outfit suggestion"])
                         EXCEPT !.invoked = @ \o <<"engine">>, !.raised = "engine"]
       \/ /\ handler.weather.temperature # <<>>
          /\ \E cleaned_items \in
                    {CleanedItems(ClothingItems(AllDescriptions(handler.clothing_items)))},
                temperature \in {handler.weather.temperature[1]} :
              \E weather_categories \in
                      {CategorizeWeather(suggester["shared"].weather_categories,
                                         handler.weather.description, temperature)},
                 occasion_features \in
                      {CalculateOccasionScore(suggester["shared"].occasion_formality,
                                              handler.occasion)} :
                \E df \in {SortValues(ScoredRows(cleaned_items, weather_categories,
                                                 occasion_features, 1))} :
                  \E entries \in {SelectEntries(df, UseOnePiece(CategoryItems(df, "one_piece")),
                                                OuterwearWarranted(temperature,
                                                                   weather_categories))} :
                    \E outfit_suggestion \in {FormatOutfitSuggestion(OutfitOf(entries))} :
                      handler' = [Return([weather |-> handler.weather,
                                          clothing_items |-> handler.clothing_items,
                                          outfit_suggestion |-> outfit_suggestion])
                                  EXCEPT !.invoked = @ \o <<"engine">>]

HandlerNext ==
    /\ \/ SuggestOutfitRequest
       \/ FetchClothingItems
       \/ FetchWeather
       \/ GetOutfitSuggestion
    /\ UNCHANGED <<connections, upload, wardrobe>>
    /\ UNCHANGED serviceVars
    /\ UNCHANGED engineVars
    /\ UNCHANGED pureVars

SpecHandler == HandlerInit /\ [][HandlerNext]_vars

\* The stages in their order.
Stages == <<"wardrobe", "weather", "engine">>

\* C28: the services are invoked in the order wardrobe, weather, engine; after
\* a failed or empty wardrobe fetch neither the weather service nor the engine
\* is invoked, after a failed weather fetch the engine is not; in these cases
\* and when the engine raises the answer has the key 'error'; and the answer
\* has 'outfit_suggestion' only when all three stages succeeded.
StagesInOrder ==
    handler.pc # "idle" =>
        /\ Len(handler.invoked) <= 3
        /\ handler.invoked = SubSeq(Stages, 1, Len(handler.invoked))
        /\ handler.pc = "done" =>
              /\ (handler.raised = "wardrobe" \/ handler.clothing_items = <<>>) =>
                    /\ handler.invoked = <<"wardrobe">>
                    /\ DOMAIN handler.response = {"error"}
              /\ handler.raised = "weather" =>
                    /\ handler.invoked = <<"wardrobe", "weather">>
                    /\ DOMAIN handler.response = {"error"}
              /\ handler.raised = "engine" => DOMAIN handler.response = {"error"}
              /\ "error" \in DOMAIN handler.response
                    \/ "outfit_suggestion" \in DOMAIN handler.response
              /\ "outfit_suggestion" \in DOMAIN handler.response =>
                    /\ handler.raised = ""
                    /\ handler.invoked = Stages
                    /\ handler.clothing_items # <<>>
                    /\ handler.weather.temperature # <<>>

\* The engine raised on a weather answer without temperature, after both
\* fetches succeeded, and the handler answered with an error.
StagesInOrderWitness ==
    /\ handler.pc = "done"
    /\ handler.raised = "engine"
    /\ handler.invoked = Stages
    /\ handler.weather.temperature = <<>>
    /\ handler.response = [error |-> "Failed to get outfit suggestion"]

=============================================================================
